---- MODULE Spec2Model ----
(***************************************************************************)
(* Model of the roam-time-blocking core: the overlap layout of the time    *)
(* grid (ui/TimeGrid.tsx), the time-range parser (core/timeParser.ts),     *)
(* the tag resolver (core/tagResolver.ts) and the page scanner             *)
(* (core/blockScanner.ts).                                                 *)
(***************************************************************************)
EXTENDS Integers, Sequences, FiniteSets, TLC

VARIABLES
  timeBlocks,    \* TimeGrid: the timeBlocks prop, a sequence of TimeBlockData
  blockLayouts,  \* TimeGrid: the result of calculateBlockLayouts(timeBlocks)
  layoutPc,      \* "props" before the layout is computed, "laid" after
  textParts,     \* parser: the pieces the text was written from
  inputText,     \* parser: the text handed to parseTimeRange
  parsed,        \* parser: what parseTimeRange returned
  parsedBy,      \* parser: index of the pattern that returned it, 0 for none
  parsePc,       \* "text" before the call, "parsed" after
  contentMap,    \* resolver: uid -> text of the block (getBlockHierarchyData)
  parentMap,     \* resolver: uid -> uid of the parent block, NoUid for none
  configuredTags,\* resolver: the configured tags, in configured order
  resolveUids,   \* resolver: the uids the caller resolves
  blockUid,      \* findAssociatedTagBatch: the uid being resolved
  currentUid,    \* findAssociatedTagBatch: local currentUid
  visited,       \* findAssociatedTagBatch: local visited
  depth,         \* findAssociatedTagBatch: local depth
  visitLog,      \* the uids the rounds of this walk looked at, in order
  walkResult,    \* what findAssociatedTagBatch returned
  walkPc,        \* "ready", "loop" inside the while loop, "done" after return
  targetPage,    \* scanner: the blocks of the page of the target date
  nextDayPage,   \* scanner: the blocks of the page of the day after
  scanTags,      \* scanner: settings.configuredTags
  dayEndHour,    \* scanner: settings.dayEndHour
  targetBlocks,  \* scanDateForTimeBlocks: local targetBlocks
  nextDayBlocks, \* scanDateForTimeBlocks: local nextDayBlocks
  dateBlocks,    \* what scanDateForTimeBlocks returned
  scanPc,        \* "settings" before the scan, "scanned" after it
  colorConfigs,  \* settings.colorConfigs, the colour groups in configured order
  formatArgs,    \* formatter: the four numbers handed to formatTimeRange
  literal,       \* formatter: the text formatTimeRange returned
  reparsed,      \* formatter: parseTimeRange of that text
  reformatted,   \* formatter: formatTimeRange of the parsed range
  formatPc,      \* "args", "formatted", "reparsed", "reformatted"
  hour12,        \* conversion: the written hour handed to convert12to24
  marker,        \* conversion: the written am/pm marker
  hour24,        \* conversion: what convert12to24 returned
  convertPc,     \* "written" before the call, "converted" after
  modeUid,       \* single and batch mode: the uid handed to both
  singleResult,  \* what findAssociatedTag returned
  batchResult,   \* what the batch resolver returned
  modePc,        \* "store", "single", "both"
  matchConfig,   \* matcher: the TagConfig the matcher is made for
  matchText,     \* matcher: the text it is tested on
  matched,       \* matcher: what regex.test(text) returned
  matchPc,       \* "made" before the test, "tested" after
  sidebarOpen,   \* index.ts: the module flag sidebarOpen
  root,          \* CalendarSidebar.tsx: TRUE when the module variable root holds a React root
  container,     \* CalendarSidebar.tsx: where the container div is: "null", "detached",
                 \* "sidebar" (in #right-sidebar) or "body" (floating panel)
  cleanupFunctions, \* index.ts: the buttons the registered cleanup functions remove
  topbarButtons, \* the buttons that stand in the topbar
  loads,         \* the number of calls of onload so far
  extensionPc,   \* "unloaded" or "loaded"
  firstClick,    \* what the first click since the last onload did: "none", "opened", "closed"
  storedStart,   \* settings: what extensionAPI.settings.get("dayStartHour") returns
  storedEnd,     \* settings: what extensionAPI.settings.get("dayEndHour") returns
  loadedStart,   \* settings: dayStartHour of the result of loadSettings
  loadedEnd,     \* settings: dayEndHour of the result of loadSettings
  settingsPc,    \* "stored" before loadSettings, "loaded" after
  givenInputs,   \* pipeline: the pages, the tags and dayEndHour as first given
  pipelineInputs,\* pipeline: the same objects as they stand now
  layoutArgument,\* pipeline: the array handed to calculateBlockLayouts, after the call
  pipelineRuns,  \* pipeline: what each run returned, in the order of the runs
  gridProps,     \* TimeGrid: the props startHour, endHour and timeGranularity
  gridBlock,     \* TimeGrid: the time range of the block of timeBlocks that is acted on
  resizeEdge,    \* TimeGrid: state resizeEdge, "top", "bottom" or "null"
  resizeCurrentMinutes, \* TimeGrid: state resizeCurrentMinutes, Null for null
  createStartY,  \* TimeGrid: state createStartY in minutes, NoMinutes for null
  createCurrentY,\* TimeGrid: state createCurrentY in minutes, NoMinutes for null
  createStartClientY, \* TimeGrid: state createStartClientY in pixels, NoMinutes for null
  committed,     \* what the handler gave to onBlockDrag or onCreateBlock, Null for no call
  writtenText,   \* the text formatTimeRange wrote for the committed range
  rescanned,     \* parseTimeRange of the written text
  gridPc         \* "shown", "handled" after a gesture ended, "rescanned"

layoutVars == <<timeBlocks, blockLayouts, layoutPc>>
parseVars == <<textParts, inputText, parsed, parsedBy, parsePc>>

resolveVars == <<colorConfigs, contentMap, parentMap, configuredTags, resolveUids, blockUid,
                 currentUid, visited, depth, visitLog, walkResult, walkPc>>

scanVars == <<targetPage, nextDayPage, scanTags, dayEndHour, targetBlocks,
              nextDayBlocks, dateBlocks, scanPc>>

formatVars == <<formatArgs, literal, reparsed, reformatted, formatPc>>

convertVars == <<hour12, marker, hour24, convertPc>>

modeVars == <<modeUid, singleResult, batchResult, modePc>>

\* the components added to the first six
matchVars == <<matchConfig, matchText, matched, matchPc>>

sidebarVars == <<sidebarOpen, root, container, cleanupFunctions, topbarButtons, loads,
                 extensionPc, firstClick>>

settingsVars == <<storedStart, storedEnd, loadedStart, loadedEnd, settingsPc>>

pipelineVars == <<givenInputs, pipelineInputs, layoutArgument, pipelineRuns>>

gridVars == <<gridProps, gridBlock, resizeEdge, resizeCurrentMinutes, createStartY,
              createCurrentY, createStartClientY, committed, writtenText, rescanned, gridPc>>

extraVars == <<modeVars, matchVars, sidebarVars, settingsVars, pipelineVars, gridVars>>

vars == <<layoutVars, parseVars, resolveVars, scanVars, formatVars, convertVars, extraVars>>

(***************************************************************************)
(* Bounds of the model.                                                    *)
(***************************************************************************)
MaxBlocks == 4      \* most blocks handed to one layout
MaxSlot == 2        \* block times are the grid slots 0..MaxSlot
MaxPad == 1         \* most spaces written on each side of the dash
MaxNodes == 3       \* blocks of a page whose parent map is arbitrary
ChainAncestors == 60 \* ancestors above the record of the long chain
MaxScanBlocks == 3  \* most blocks on the two scanned pages together

DEFAULT_GRANULARITY == 15

Max(a, b) == IF a >= b THEN a ELSE b
SetMax(S) == CHOOSE x \in S : \A y \in S : y <= x

(***************************************************************************)
(* Texts are sequences of one-character strings.  The regular expressions  *)
(* of the program are sequences of atoms, matched as JavaScript matches    *)
(* them: leftmost start, greedy quantifiers, alternatives in order,        *)
(* backtracking, and (flag i) without regard to letter case.               *)
(***************************************************************************)
Digits == {"0", "1", "2", "3", "4", "5", "6", "7", "8", "9"}
Spaces == {" "}
Letters == {"a", "b", "c", "d", "e", "f", "g", "h", "i", "j", "k", "l", "m", "n", "o",
            "p", "q", "r", "s", "t", "u", "v", "w", "x", "y", "z"}
WordChars == Letters \cup Digits \cup {"_"}

\* String.prototype.toLowerCase, on the letters the texts of the model use
Lower(c) ==
  CASE c = "A" -> "a" [] c = "M" -> "m" [] c = "P" -> "p" [] OTHER -> c

LowerText(t) == [i \in 1..Len(t) |-> Lower(t[i])]

\* atoms: set{min,max} with capture group (0: none), set*, (a|b) with capture
\* group, (?!pattern)
Rep(set, min, max, group) ==
  [kind |-> "rep", set |-> set, min |-> min, max |-> max, group |-> group]
Star(set) == [kind |-> "star", set |-> set, group |-> 0]
Lit(c) == Rep({c}, 1, 1, 0)
Alt(alts, group) == [kind |-> "alt", alts |-> alts, group |-> group]
NegLook(pat) == [kind |-> "neglook", pat |-> pat, group |-> 0]

\* a match: ok, the position behind it, the texts of the capture groups 1..6
\* and (from RegexMatch) the whole matched text, the match[0] of JavaScript
NoCaptures == <<(<<>>), (<<>>), (<<>>), (<<>>), (<<>>), (<<>>)>>
NoMatch == [ok |-> FALSE, end |-> 0, caps |-> NoCaptures, all |-> <<>>]

\* the number of characters from position i on that lie in set, at most limit
RECURSIVE RunLength(_, _, _, _)
RunLength(set, t, i, limit) ==
  IF limit = 0 \/ i > Len(t) THEN 0
  ELSE IF Lower(t[i]) \in set THEN 1 + RunLength(set, t, i + 1, limit - 1)
  ELSE 0

Capture(caps, group, str) ==
  IF group = 0 THEN caps ELSE [caps EXCEPT ![group] = str]

RECURSIVE MatchFrom(_, _, _, _, _)
RECURSIVE TryCount(_, _, _, _, _, _)
RECURSIVE TryAlt(_, _, _, _, _, _)

\* atoms k.. of pat matched at position i of t
MatchFrom(pat, k, t, i, caps) ==
  IF k > Len(pat) THEN [ok |-> TRUE, end |-> i, caps |-> caps, all |-> <<>>]
  ELSE LET a == pat[k]
       IN CASE a.kind = "rep" ->
                 LET n == RunLength(a.set, t, i, a.max)
                 IN IF n < a.min THEN NoMatch ELSE TryCount(pat, k, t, i, caps, n)
            [] a.kind = "star" ->
                 TryCount(pat, k, t, i, caps, RunLength(a.set, t, i, Len(t)))
            [] a.kind = "alt" -> TryAlt(pat, k, t, i, caps, 1)
            [] a.kind = "neglook" ->
                 IF MatchFrom(a.pat, 1, t, i, NoCaptures).ok THEN NoMatch
                 ELSE MatchFrom(pat, k + 1, t, i, caps)

\* greedy: n repetitions first, then fewer
TryCount(pat, k, t, i, caps, n) ==
  LET a == pat[k]
      least == IF a.kind = "star" THEN 0 ELSE a.min
      rest == MatchFrom(pat, k + 1, t, i + n,
                        Capture(caps, a.group, SubSeq(t, i, i + n - 1)))
  IN IF rest.ok THEN rest
     ELSE IF n > least THEN TryCount(pat, k, t, i, caps, n - 1)
     ELSE NoMatch

\* the alternatives in order
TryAlt(pat, k, t, i, caps, j) ==
  LET a == pat[k]
  IN IF j > Len(a.alts) THEN NoMatch
     ELSE LET w == a.alts[j]
              here == /\ i + Len(w) - 1 <= Len(t)
                      /\ LowerText(SubSeq(t, i, i + Len(w) - 1)) = w
              rest == IF here
                      THEN MatchFrom(pat, k + 1, t, i + Len(w),
                                     Capture(caps, a.group, SubSeq(t, i, i + Len(w) - 1)))
                      ELSE NoMatch
          IN IF rest.ok THEN rest ELSE TryAlt(pat, k, t, i, caps, j + 1)

\* String.prototype.match / RegExp.prototype.test without flag g: the match
\* at the leftmost position that has one
RECURSIVE SearchFrom(_, _, _)
SearchFrom(pat, t, i) ==
  IF i > Len(t) + 1 THEN NoMatch
  ELSE LET m == MatchFrom(pat, 1, t, i, NoCaptures)
       IN IF m.ok THEN [m EXCEPT !.all = SubSeq(t, i, m.end - 1)]
          ELSE SearchFrom(pat, t, i + 1)

RegexMatch(pat, t) == SearchFrom(pat, t, 1)
RegexTest(pat, t) == RegexMatch(pat, t).ok

\* parseInt(s, 10) of a text of digits
DigitValue(c) ==
  CASE c = "0" -> 0 [] c = "1" -> 1 [] c = "2" -> 2 [] c = "3" -> 3 [] c = "4" -> 4
    [] c = "5" -> 5 [] c = "6" -> 6 [] c = "7" -> 7 [] c = "8" -> 8 [] c = "9" -> 9

RECURSIVE ParseInt(_)
ParseInt(s) ==
  IF Len(s) = 0 THEN 0
  ELSE 10 * ParseInt(SubSeq(s, 1, Len(s) - 1)) + DigitValue(s[Len(s)])

(***************************************************************************)
(* core/timeParser.ts                                                      *)
(***************************************************************************)
Null == [isNull |-> TRUE]

AmPm == <<(<<"a", "m">>), (<<"p", "m">>)>>

\* /(\d{1,2}):(\d{2})\s*-\s*(\d{1,2}):(\d{2})(?!\s*[ap])/i
PATTERN_24 ==
  <<Rep(Digits, 1, 2, 1), Lit(":"), Rep(Digits, 2, 2, 2), Star(Spaces), Lit("-"),
    Star(Spaces), Rep(Digits, 1, 2, 3), Lit(":"), Rep(Digits, 2, 2, 4),
    NegLook(<<Star(Spaces), Rep({"a", "p"}, 1, 1, 0)>>)>>

\* /(\d{1,2}):(\d{2})\s*(am|pm)\s*-\s*(\d{1,2}):(\d{2})\s*(am|pm)/i
PATTERN_12 ==
  <<Rep(Digits, 1, 2, 1), Lit(":"), Rep(Digits, 2, 2, 2), Star(Spaces), Alt(AmPm, 3),
    Star(Spaces), Lit("-"), Star(Spaces), Rep(Digits, 1, 2, 4), Lit(":"),
    Rep(Digits, 2, 2, 5), Star(Spaces), Alt(AmPm, 6)>>

\* /(\d{1,2})\s*(am|pm)\s*-\s*(\d{1,2})\s*(am|pm)/i
PATTERN_12_SHORT ==
  <<Rep(Digits, 1, 2, 1), Star(Spaces), Alt(AmPm, 2), Star(Spaces), Lit("-"),
    Star(Spaces), Rep(Digits, 1, 2, 3), Star(Spaces), Alt(AmPm, 4)>>

\* mutant: hour 12 is converted like every other hour
convert12to24Plain(hour, period) ==
  LET isPM == LowerText(period) = <<"p", "m">>
  IN IF isPM THEN hour + 12 ELSE hour

convert12to24(hour, period) ==
  LET isPM == LowerText(period) = <<"p", "m">>
  IN IF hour = 12 THEN (IF isPM THEN 12 ELSE 0)
     ELSE IF isPM THEN hour + 12 ELSE hour

TIME_PATTERNS == <<PATTERN_24, PATTERN_12, PATTERN_12_SHORT>>

\* the parse function of TIME_PATTERNS[k], on the capture groups of a match
TimeParse(k, match) ==
  CASE k = 1 ->
         [startHour |-> ParseInt(match.caps[1]), startMinute |-> ParseInt(match.caps[2]),
          endHour |-> ParseInt(match.caps[3]), endMinute |-> ParseInt(match.caps[4]),
          originalText |-> match.all]
    [] k = 2 ->
         [startHour |-> convert12to24(ParseInt(match.caps[1]), match.caps[3]),
          startMinute |-> ParseInt(match.caps[2]),
          endHour |-> convert12to24(ParseInt(match.caps[4]), match.caps[6]),
          endMinute |-> ParseInt(match.caps[5]),
          originalText |-> match.all]
    [] k = 3 ->
         [startHour |-> convert12to24(ParseInt(match.caps[1]), match.caps[2]),
          startMinute |-> 0,
          endHour |-> convert12to24(ParseInt(match.caps[3]), match.caps[4]),
          endMinute |-> 0,
          originalText |-> match.all]

\* mutant: the check that the end is not before the start is left out
isValidTimeRangeUnordered(range) ==
  /\ ~(range.startHour < 0 \/ range.startHour > 23 \/ range.endHour < 0 \/ range.endHour > 23)
  /\ ~(\/ range.startMinute < 0 \/ range.startMinute > 59
        \/ range.endMinute < 0 \/ range.endMinute > 59)

isValidTimeRange(range) ==
  IF range.startHour < 0 \/ range.startHour > 23 \/ range.endHour < 0 \/ range.endHour > 23
  THEN FALSE
  ELSE IF \/ range.startMinute < 0 \/ range.startMinute > 59
          \/ range.endMinute < 0 \/ range.endMinute > 59
  THEN FALSE
  ELSE LET startTotal == range.startHour * 60 + range.startMinute
           endTotal == range.endHour * 60 + range.endMinute
       IN endTotal >= startTotal

\* the loop as it would be if an invalid match ended the search
RECURSIVE ParseLoopStopAtMatch(_, _)
ParseLoopStopAtMatch(k, text) ==
  IF k > Len(TIME_PATTERNS) THEN [result |-> Null, pattern |-> 0]
  ELSE LET match == RegexMatch(TIME_PATTERNS[k], text)
       IN IF match.ok
          THEN LET result == TimeParse(k, match)
               IN IF isValidTimeRange(result) THEN [result |-> result, pattern |-> k]
                  ELSE [result |-> Null, pattern |-> 0]
          ELSE ParseLoopStopAtMatch(k + 1, text)

\* the loop of parseTimeRange from pattern k on: the result it returns and the
\* index of the pattern that gave it (0: none, the result is null)
RECURSIVE ParseLoop(_, _)
ParseLoop(k, text) ==
  IF k > Len(TIME_PATTERNS) THEN [result |-> Null, pattern |-> 0]
  ELSE LET match == RegexMatch(TIME_PATTERNS[k], text)
       IN IF match.ok
          THEN LET result == TimeParse(k, match)
               IN IF isValidTimeRange(result) THEN [result |-> result, pattern |-> k]
                  ELSE ParseLoop(k + 1, text)
          ELSE ParseLoop(k + 1, text)

parseTimeRange(text) == ParseLoop(1, text).result

DigitChar(d) == <<"0", "1", "2", "3", "4", "5", "6", "7", "8", "9">>[d + 1]

\* Number.prototype.toString of a natural number
RECURSIVE NumText(_)
NumText(n) == IF n < 10 THEN <<DigitChar(n)>> ELSE NumText(n \div 10) \o <<DigitChar(n % 10)>>

\* String.prototype.padStart(targetLength, "0")
RECURSIVE PadStart(_, _)
PadStart(text, targetLength) ==
  IF Len(text) >= targetLength THEN text ELSE PadStart(<<"0">> \o text, targetLength)

\* mutant: the number is written without padding
PadNone(n) == NumText(n)

\* pad of formatTimeRange
Pad(n) == PadStart(NumText(n), 2)

formatTimeRange(startHour, startMinute, endHour, endMinute) ==
  Pad(startHour) \o <<":">> \o Pad(startMinute) \o <<"-">>
    \o Pad(endHour) \o <<":">> \o Pad(endMinute)

(***************************************************************************)
(* core/tagResolver.ts                                                     *)
(***************************************************************************)
MAX_PARENT_DEPTH == 50

\* a uid that is null, undefined or "": every falsy uid of the program
NoUid == 0

\* types/index.ts, colorConfigsToTagConfigs: the inner loop over the tags of
\* one colour group from tag t on, and the outer loop from group c on
RECURSIVE PushTags(_, _, _)
PushTags(config, t, result) ==
  IF t > Len(config.tags) THEN result
  ELSE PushTags(config, t + 1,
                Append(result, [tag |-> config.tags[t], color |-> config.color,
                                isPageRef |-> FALSE]))

RECURSIVE PushConfigs(_, _, _)
PushConfigs(configs, c, result) ==
  IF c > Len(configs) THEN result
  ELSE PushConfigs(configs, c + 1, PushTags(configs[c], 1, result))

colorConfigsToTagConfigs(configs) == PushConfigs(configs, 1, <<>>)

\* escapeRegex and the literal text of a RegExp source under flag i
Literal(word) == [i \in 1..Len(word) |-> Lit(Lower(word[i]))]

\* mutant: the hash form has no lookahead
createTagMatcherNoLookahead(config) ==
  <<Literal(<<"#">> \o config.tag),
    Literal(<<"#", "[", "[">> \o config.tag \o <<"]", "]">>),
    Literal(<<"[", "[">> \o config.tag \o <<"]", "]">>)>>

\* (#tag(?![\w-])|#\[\[tag\]\]|\[\[tag\]\]), flag i: its three alternatives
createTagMatcher(config) ==
  <<Literal(<<"#">> \o config.tag) \o <<NegLook(<<Rep(WordChars \cup {"-"}, 1, 1, 0)>>)>>,
    Literal(<<"#", "[", "[">> \o config.tag \o <<"]", "]">>),
    Literal(<<"[", "[">> \o config.tag \o <<"]", "]">>)>>

\* regex.test(text) of a matcher: some alternative matches somewhere
TagRegexTest(regex, content) ==
  \E a \in 1..Len(regex) : RegexTest(regex[a], content)

buildTagMatchers(tags) ==
  [k \in 1..Len(tags) |-> [config |-> tags[k], regex |-> createTagMatcher(tags[k])]]

\* mutant: the loop goes through all matchers and the last match wins
RECURSIVE LastMatcher(_, _, _)
LastMatcher(k, content, matchers) ==
  IF k > Len(matchers) THEN Null
  ELSE LET later == LastMatcher(k + 1, content, matchers)
       IN IF later # Null THEN later
          ELSE IF TagRegexTest(matchers[k].regex, content) THEN matchers[k].config
          ELSE Null

\* the for loop over the matchers, from matcher k on
RECURSIVE FirstMatcher(_, _, _)
FirstMatcher(k, content, matchers) ==
  IF k > Len(matchers) THEN Null
  ELSE IF TagRegexTest(matchers[k].regex, content) THEN matchers[k].config
  ELSE FirstMatcher(k + 1, content, matchers)

\* the config of the first matcher whose regex matches, or null
findTagInTextWithMatchers(content, matchers) == FirstMatcher(1, content, matchers)

\* Map.prototype.get on a uid the map may not hold
MapGet(map, uid, missing) == IF uid \in DOMAIN map THEN map[uid] ELSE missing

\* mutant: the walk starts at the parent and never reads the record's own text
WalkStartAtParent(uid) ==
  [currentUid |-> MapGet(parentMap, uid, NoUid), visited |-> {}, depth |-> 0]

\* the locals of findAssociatedTagBatch at its start
WalkStart(uid) == [currentUid |-> uid, visited |-> {}, depth |-> 0]

\* mutant: the loop has no cycle guard
WalkConditionNoGuard(w) ==
  /\ w.currentUid # NoUid
  /\ w.depth < MAX_PARENT_DEPTH

\* the condition of the while loop
WalkCondition(w) ==
  /\ w.currentUid # NoUid
  /\ w.currentUid \notin w.visited
  /\ w.depth < MAX_PARENT_DEPTH

\* one round of the while loop: either it returns a tag or it moves to the parent
WalkBody(w, matchers, contents, parents) ==
  LET content == MapGet(contents, w.currentUid, <<>>)
      tag == IF content # <<>> THEN findTagInTextWithMatchers(content, matchers) ELSE Null
  IN [returned |-> tag # Null,
      tag |-> tag,
      locals |-> [currentUid |-> MapGet(parents, w.currentUid, NoUid),
                  visited |-> w.visited \cup {w.currentUid},
                  depth |-> w.depth + 1]]

RECURSIVE WalkLoop(_, _, _, _)
WalkLoop(w, matchers, contents, parents) ==
  IF ~WalkCondition(w) THEN Null
  ELSE LET round == WalkBody(w, matchers, contents, parents)
       IN IF round.returned THEN round.tag
          ELSE WalkLoop(round.locals, matchers, contents, parents)

findAssociatedTagBatch(uid, matchers, contents, parents) ==
  IF Len(matchers) = 0 THEN Null
  ELSE WalkLoop(WalkStart(uid), matchers, contents, parents)

\* createBatchTagResolver(configuredTags, contentMap, parentMap)(blockUid)
ResolveTag(uid, tags, contents, parents) ==
  findAssociatedTagBatch(uid, buildTagMatchers(tags), contents, parents)

\* api/roamQueries.ts: the text of a block in the store, "" where it has none,
\* and the uid of its parent, null where it has none
getBlockContent(contents, uid) == MapGet(contents, uid, <<>>)
getParentBlockUid(parents, uid) == MapGet(parents, uid, NoUid)

\* mutant: the single mode stops one round earlier than the batch mode
SingleConditionShort(w) ==
  w.currentUid # NoUid /\ w.depth < MAX_PARENT_DEPTH - 1

\* the condition of the while loop of findAssociatedTag
SingleCondition(w) ==
  w.currentUid # NoUid /\ w.depth < MAX_PARENT_DEPTH

\* the while loop of findAssociatedTag, which fetches from the store in
\* every round and keeps no set of visited uids
RECURSIVE SingleLoop(_, _, _, _)
SingleLoop(w, tagMatchers, contents, parents) ==
  IF ~SingleCondition(w) THEN Null
  ELSE LET content == getBlockContent(contents, w.currentUid)
           tag == findTagInTextWithMatchers(content, tagMatchers)
       IN IF tag # Null THEN tag
          ELSE SingleLoop([currentUid |-> getParentBlockUid(parents, w.currentUid),
                           depth |-> w.depth + 1],
                          tagMatchers, contents, parents)

findAssociatedTag(uid, tags, contents, parents) ==
  IF Len(tags) = 0 THEN Null
  ELSE SingleLoop([currentUid |-> uid, depth |-> 0], buildTagMatchers(tags), contents,
                  parents)

(***************************************************************************)
(* The components a specification leaves out rest in these states.         *)
(***************************************************************************)
LayoutIdle ==
  /\ timeBlocks = <<>>
  /\ blockLayouts = <<>>
  /\ layoutPc = "off"

ParseIdle ==
  /\ textParts = <<>>
  /\ inputText = <<>>
  /\ parsed = Null
  /\ parsedBy = 0
  /\ parsePc = "off"

ResolveIdle ==
  /\ colorConfigs = <<>>
  /\ contentMap = <<>>
  /\ parentMap = <<>>
  /\ configuredTags = <<>>
  /\ resolveUids = {}
  /\ blockUid = NoUid
  /\ currentUid = NoUid
  /\ visited = {}
  /\ depth = 0
  /\ visitLog = <<>>
  /\ walkResult = Null
  /\ walkPc = "off"

ScanIdle ==
  /\ targetPage = <<>>
  /\ nextDayPage = <<>>
  /\ scanTags = <<>>
  /\ dayEndHour = 0
  /\ targetBlocks = <<>>
  /\ nextDayBlocks = <<>>
  /\ dateBlocks = <<>>
  /\ scanPc = "off"

FormatIdle ==
  /\ formatArgs = <<>>
  /\ literal = <<>>
  /\ reparsed = Null
  /\ reformatted = <<>>
  /\ formatPc = "off"

ConvertIdle ==
  /\ hour12 = 0
  /\ marker = <<>>
  /\ hour24 = 0
  /\ convertPc = "off"

ModeIdle ==
  /\ modeUid = NoUid
  /\ singleResult = Null
  /\ batchResult = Null
  /\ modePc = "off"

MatchIdle ==
  /\ matchConfig = Null
  /\ matchText = <<>>
  /\ matched = FALSE
  /\ matchPc = "off"

SidebarIdle ==
  /\ sidebarOpen = FALSE
  /\ root = FALSE
  /\ container = "null"
  /\ cleanupFunctions = <<>>
  /\ topbarButtons = {}
  /\ loads = 0
  /\ extensionPc = "off"
  /\ firstClick = "none"

SettingsIdle ==
  /\ storedStart = Null
  /\ storedEnd = Null
  /\ loadedStart = 0
  /\ loadedEnd = 0
  /\ settingsPc = "off"

PipelineIdle ==
  /\ givenInputs = Null
  /\ pipelineInputs = Null
  /\ layoutArgument = <<>>
  /\ pipelineRuns = <<>>

NoMinutes == 0 - 1

GridIdle ==
  /\ gridProps = Null
  /\ gridBlock = Null
  /\ resizeEdge = "null"
  /\ resizeCurrentMinutes = Null
  /\ createStartY = NoMinutes
  /\ createCurrentY = NoMinutes
  /\ createStartClientY = NoMinutes
  /\ committed = Null
  /\ writtenText = <<>>
  /\ rescanned = Null
  /\ gridPc = "off"

ExtraIdle ==
  ModeIdle /\ MatchIdle /\ SidebarIdle /\ SettingsIdle /\ PipelineIdle /\ GridIdle

(***************************************************************************)
(* The texts given to the parser: [lead] H[:MM][am|pm] - H[:MM][am|pm]     *)
(* [tail], each piece written one of a few ways.                           *)
(***************************************************************************)
WrittenHours == {9, 12, 25}
HourTexts == {NumText(h) : h \in WrittenHours}
MinuteTexts == {<<>>, <<":", "0", "0">>, <<":", "3", "0">>, <<":", "7", "0">>}
PeriodTexts == {<<>>, <<"a", "m">>, <<"P", "M">>}
LeadTexts == {<<>>, <<"x", " ">>}
TailTexts == {<<>>, <<" ", "x">>, <<" ", "p", "l", "a", "n">>}

RECURSIVE Blanks(_)
Blanks(n) == IF n = 0 THEN <<>> ELSE <<" ">> \o Blanks(n - 1)

TextParts ==
  [lead : LeadTexts, h1 : HourTexts, m1 : MinuteTexts, p1 : PeriodTexts,
   pad : 0..MaxPad, h2 : HourTexts, m2 : MinuteTexts, p2 : PeriodTexts,
   tail : TailTexts]

\* a second interval expression, in the short 12-hour form, that may follow
\* a text written without am/pm markers
SecondRange == <<" ", "9", "a", "m", "-", "9", "a", "m">>

TwoRangeParts ==
  {[p EXCEPT !.tail = SecondRange] :
     p \in {q \in TextParts : q.p1 = <<>> /\ q.p2 = <<>> /\ q.tail = <<>>}}

Written(p) ==
  p.lead \o p.h1 \o p.m1 \o p.p1 \o Blanks(p.pad) \o <<"-">> \o Blanks(p.pad)
    \o p.h2 \o p.m2 \o p.p2 \o p.tail

InitParse ==
  /\ LayoutIdle
  /\ ResolveIdle
  /\ ScanIdle
  /\ FormatIdle
  /\ ConvertIdle
  /\ ExtraIdle
  /\ textParts \in TextParts \cup TwoRangeParts
  /\ inputText = Written(textParts)
  /\ parsed = Null
  /\ parsedBy = 0
  /\ parsePc = "text"

\* a caller runs parseTimeRange(text)
ParseText ==
  /\ parsePc = "text"
  /\ LET returned == ParseLoop(1, inputText)
     IN /\ parsed' = returned.result
        /\ parsedBy' = returned.pattern
  /\ parsePc' = "parsed"
  /\ UNCHANGED <<textParts, inputText, layoutVars, resolveVars, scanVars,
               formatVars, convertVars, extraVars>>

NextParse == ParseText

SpecParse == InitParse /\ [][NextParse]_vars

(***************************************************************************)
(* The 12-hour conversion, called by the parse functions of the 12-hour    *)
(* patterns with a captured hour of one or two digits and a captured       *)
(* marker in any spelling of am and pm.                                    *)
(***************************************************************************)
MaxWrittenHour == 13

MarkerTexts ==
  {<<a, m>> : a \in {"a", "A", "p", "P"}, m \in {"m", "M"}}

InitConvert ==
  /\ LayoutIdle
  /\ ParseIdle
  /\ ResolveIdle
  /\ ScanIdle
  /\ FormatIdle
  /\ ExtraIdle
  /\ hour12 \in 0..MaxWrittenHour
  /\ marker \in MarkerTexts
  /\ hour24 = 0
  /\ convertPc = "written"

\* convert12to24(hour, period)
ConvertHour ==
  /\ convertPc = "written"
  /\ hour24' = convert12to24(hour12, marker)
  /\ convertPc' = "converted"
  /\ UNCHANGED <<hour12, marker, layoutVars, parseVars, resolveVars, scanVars, formatVars, extraVars>>

NextConvert == ConvertHour

SpecConvert == InitConvert /\ [][NextConvert]_vars

(***************************************************************************)
(* The formatter and the parser in a round trip: a block is written with    *)
(* formatTimeRange, its text is parsed again, and the parsed range is       *)
(* written again.                                                           *)
(***************************************************************************)
FormatHours == 0..23
FormatMinutes == {0, 5, 30, 59}

FormatArgs ==
  [startHour : FormatHours, startMinute : FormatMinutes,
   endHour : FormatHours, endMinute : FormatMinutes]

InitFormat ==
  /\ LayoutIdle
  /\ ParseIdle
  /\ ResolveIdle
  /\ ScanIdle
  /\ ConvertIdle
  /\ ExtraIdle
  /\ formatArgs \in FormatArgs
  /\ literal = <<>>
  /\ reparsed = Null
  /\ reformatted = <<>>
  /\ formatPc = "args"

FormatOthers == <<layoutVars, parseVars, resolveVars, scanVars, convertVars, extraVars>>

\* formatTimeRange(startHour, startMinute, endHour, endMinute)
FormatRange ==
  /\ formatPc = "args"
  /\ literal' = formatTimeRange(formatArgs.startHour, formatArgs.startMinute,
                                formatArgs.endHour, formatArgs.endMinute)
  /\ formatPc' = "formatted"
  /\ UNCHANGED <<formatArgs, reparsed, reformatted, FormatOthers>>

\* parseTimeRange of the formatted text
ParseLiteral ==
  /\ formatPc = "formatted"
  /\ reparsed' = parseTimeRange(literal)
  /\ formatPc' = "reparsed"
  /\ UNCHANGED <<formatArgs, literal, reformatted, FormatOthers>>

\* formatTimeRange of the parsed range, where there is one
FormatParsed ==
  /\ formatPc = "reparsed"
  /\ reparsed # Null
  /\ reformatted' = formatTimeRange(reparsed.startHour, reparsed.startMinute,
                                    reparsed.endHour, reparsed.endMinute)
  /\ formatPc' = "reformatted"
  /\ UNCHANGED <<formatArgs, literal, reparsed, FormatOthers>>

NextFormat ==
  \/ FormatRange
  \/ ParseLiteral
  \/ FormatParsed

SpecFormat == InitFormat /\ [][NextFormat]_vars

(***************************************************************************)
(* The inputs of the resolver: the configured tags, and the content and    *)
(* parent maps of a page.  Either every parent map over MaxNodes blocks    *)
(* (cycles and self-parents among them), or a record under a chain of      *)
(* ChainAncestors ancestors with #work on one node and #home on the next.  *)
(* The caller resolves blocks 1 and 2, in any order and any number of      *)
(* times.                                                                  *)
(***************************************************************************)
TagWork == [tag |-> <<"w", "o", "r", "k">>, color |-> "#7CB342", isPageRef |-> FALSE]
TagHome == [tag |-> <<"h", "o", "m", "e">>, color |-> "#E53935", isPageRef |-> FALSE]
TagLists == {<<>>, <<TagWork, TagHome>>}

Red == "#E53935"
Green == "#7CB342"
Yellow == "#FDD835"
Gray == "#757575"
DEFAULT_COLOR_CONFIGS ==
  <<[color |-> Red, tags |-> <<>>], [color |-> Green, tags |-> <<>>],
    [color |-> Yellow, tags |-> <<>>], [color |-> Gray, tags |-> <<>>]>>
WorkHomeColors ==
  <<[color |-> Green, tags |-> <<TagWork.tag>>], [color |-> Red, tags |-> <<TagHome.tag>>]>>
ColorLists == {DEFAULT_COLOR_CONFIGS, WorkHomeColors}

\* colour configurations that name the two tags in either order, in one
\* group or in two, with or without an empty group between them
OrderedColorLists ==
  {WorkHomeColors,
   <<[color |-> Green, tags |-> <<TagWork.tag, TagHome.tag>>]>>,
   <<[color |-> Green, tags |-> <<TagHome.tag, TagWork.tag>>]>>,
   <<[color |-> Red, tags |-> <<TagHome.tag>>], [color |-> Green, tags |-> <<TagWork.tag>>]>>,
   <<[color |-> Red, tags |-> <<TagHome.tag>>], [color |-> Green, tags |-> <<>>],
     [color |-> Yellow, tags |-> <<TagWork.tag>>]>>}

PlainText == <<"x">>
WorkText == <<"#", "w", "o", "r", "k">>
HomeText == <<"#", "h", "o", "m", "e">>
NodeTexts == {PlainText, WorkText, HomeText}

\* texts that name both tags
WorkHomeText == WorkText \o <<" ">> \o HomeText
HomeWorkText == HomeText \o <<" ">> \o WorkText
BothTexts == {PlainText, WorkHomeText, HomeWorkText}

ChainTop == ChainAncestors + 1

WalkNotStarted ==
  /\ blockUid = NoUid
  /\ currentUid = NoUid
  /\ visited = {}
  /\ depth = 0
  /\ visitLog = <<>>
  /\ walkResult = Null
  /\ walkPc = "ready"

InitSmallGraph ==
  /\ contentMap \in [1..MaxNodes -> NodeTexts]
  /\ parentMap \in [1..MaxNodes -> 0..MaxNodes]
  /\ colorConfigs \in ColorLists
  /\ configuredTags = colorConfigsToTagConfigs(colorConfigs)
  /\ resolveUids = {1, 2}

InitChain ==
  \E workAt \in 0..ChainTop, last \in {NoUid, 1, ChainTop}, plain \in {<<>>, PlainText} :
    /\ contentMap = [u \in 1..ChainTop |->
                       IF u = workAt THEN WorkText
                       ELSE IF u = workAt + 1 THEN HomeText
                       ELSE plain]
    /\ parentMap = [u \in 1..ChainTop |-> IF u < ChainTop THEN u + 1 ELSE last]
    /\ colorConfigs = WorkHomeColors
    /\ configuredTags = colorConfigsToTagConfigs(colorConfigs)
    /\ resolveUids = {1, 2}

\* two blocks whose texts may name both tags, under each colour configuration
InitOrdered ==
  /\ contentMap \in [1..2 -> BothTexts]
  /\ parentMap \in [1..2 -> 0..2]
  /\ colorConfigs \in OrderedColorLists
  /\ configuredTags = colorConfigsToTagConfigs(colorConfigs)
  /\ resolveUids = {1, 2}

InitResolve ==
  /\ LayoutIdle
  /\ ParseIdle
  /\ ScanIdle
  /\ FormatIdle
  /\ ConvertIdle
  /\ ExtraIdle
  /\ InitSmallGraph \/ InitChain \/ InitOrdered
  /\ WalkNotStarted

\* resolveTag(block.uid): findAssociatedTagBatch up to its while loop
CallResolver(uid) ==
  /\ walkPc \in {"ready", "done"}
  /\ blockUid' = uid
  /\ visitLog' = <<>>
  /\ currentUid' = WalkStart(uid).currentUid
  /\ visited' = WalkStart(uid).visited
  /\ depth' = WalkStart(uid).depth
  /\ walkResult' = Null
  /\ walkPc' = IF Len(buildTagMatchers(configuredTags)) = 0 THEN "done" ELSE "loop"
  /\ UNCHANGED <<contentMap, parentMap, configuredTags, resolveUids, colorConfigs,
               layoutVars, parseVars, scanVars, formatVars, convertVars, extraVars>>

WalkLocals == [currentUid |-> currentUid, visited |-> visited, depth |-> depth]

\* one round of the while loop
WalkRound ==
  /\ walkPc = "loop"
  /\ WalkCondition(WalkLocals)
  /\ LET round == WalkBody(WalkLocals, buildTagMatchers(configuredTags), contentMap, parentMap)
     IN /\ visited' = round.locals.visited
        /\ depth' = round.locals.depth
        /\ visitLog' = Append(visitLog, currentUid)
        /\ IF round.returned
           THEN /\ walkResult' = round.tag
                /\ walkPc' = "done"
                /\ UNCHANGED currentUid
           ELSE /\ currentUid' = round.locals.currentUid
                /\ UNCHANGED <<walkResult, walkPc>>
  /\ UNCHANGED <<contentMap, parentMap, configuredTags, resolveUids, blockUid,
                 colorConfigs, layoutVars, parseVars, scanVars, formatVars, convertVars, extraVars>>

\* the loop condition fails: return null
WalkEnd ==
  /\ walkPc = "loop"
  /\ ~WalkCondition(WalkLocals)
  /\ walkResult' = Null
  /\ walkPc' = "done"
  /\ UNCHANGED <<contentMap, parentMap, configuredTags, resolveUids, blockUid,
                 currentUid, visited, depth, visitLog, colorConfigs,
                 layoutVars, parseVars, scanVars, formatVars, convertVars, extraVars>>

NextResolve ==
  \/ \E uid \in resolveUids : CallResolver(uid)
  \/ WalkRound
  \/ WalkEnd

SpecResolve == InitResolve /\ [][NextResolve]_vars

(***************************************************************************)
(* index.ts and the container management of ui/CalendarSidebar.tsx: the     *)
(* extension is loaded and unloaded by the host, and every topbar button    *)
(* toggles the sidebar.                                                     *)
(***************************************************************************)
MaxLoads == 3

\* renderSidebar: where the container is after the call, given where it was
\* and whether #right-sidebar is found
ContainerAfterRender(was, rightSidebar) ==
  LET created == IF was = "null" THEN "detached" ELSE was
  IN IF rightSidebar /\ created = "detached" THEN "sidebar"
     ELSE IF ~rightSidebar THEN "body"
     ELSE created

InitSidebar ==
  /\ LayoutIdle
  /\ ParseIdle
  /\ ResolveIdle
  /\ ScanIdle
  /\ FormatIdle
  /\ ConvertIdle
  /\ ModeIdle
  /\ MatchIdle
  /\ SettingsIdle
  /\ sidebarOpen = FALSE
  /\ root = FALSE
  /\ container = "null"
  /\ cleanupFunctions = <<>>
  /\ topbarButtons = {}
  /\ loads = 0
  /\ extensionPc = "unloaded"
  /\ firstClick = "none"
  /\ PipelineIdle
  /\ GridIdle

SidebarOthers ==
  <<layoutVars, parseVars, resolveVars, scanVars, formatVars, convertVars, modeVars,
    matchVars, settingsVars,
    pipelineVars, gridVars>>

\* onload: the button is created and, where the topbar is found, put into
\* it; a cleanup function for it is registered
Onload(topbar) ==
  /\ loads < MaxLoads
  /\ loads' = loads + 1
  /\ topbarButtons' = IF topbar THEN topbarButtons \cup {loads + 1} ELSE topbarButtons
  /\ cleanupFunctions' = Append(cleanupFunctions, loads + 1)
  /\ extensionPc' = "loaded"
  /\ firstClick' = "none"
  /\ UNCHANGED <<sidebarOpen, root, container, SidebarOthers>>

\* onunload: every cleanup function removes its button and calls
\* unmountSidebar; the list is emptied
Onunload ==
  /\ extensionPc = "loaded"
  /\ topbarButtons' = topbarButtons \ {cleanupFunctions[k] : k \in 1..Len(cleanupFunctions)}
  /\ IF Len(cleanupFunctions) > 0
     THEN root' = FALSE /\ container' = "null"
     ELSE UNCHANGED <<root, container>>
  /\ cleanupFunctions' = <<>>
  /\ extensionPc' = "unloaded"
  /\ UNCHANGED <<sidebarOpen, loads, firstClick, SidebarOthers>>

\* a click on a button of the topbar: toggleSidebar
ToggleSidebar(rightSidebar) ==
  /\ topbarButtons # {}
  /\ IF sidebarOpen
     THEN /\ root' = FALSE
          /\ container' = "null"
          /\ sidebarOpen' = FALSE
     ELSE /\ container' = ContainerAfterRender(container, rightSidebar)
          /\ root' = TRUE
          /\ sidebarOpen' = TRUE
  /\ firstClick' = IF firstClick # "none" THEN firstClick
                   ELSE IF root' THEN "opened" ELSE "closed"
  /\ UNCHANGED <<cleanupFunctions, topbarButtons, loads, extensionPc, SidebarOthers>>

NextSidebar ==
  \/ \E topbar \in BOOLEAN : Onload(topbar)
  \/ Onunload
  \/ \E rightSidebar \in BOOLEAN : ToggleSidebar(rightSidebar)

SpecSidebar == InitSidebar /\ [][NextSidebar]_vars

(***************************************************************************)
(* settings/settingsPanel.ts, loadSettings: the two hours of the day are    *)
(* read from the stored settings, which hold nothing, a text that is no     *)
(* number, or a number.                                                     *)
(***************************************************************************)
MaxStored == 32

DEFAULT_SETTINGS == [dayStartHour |-> 6, dayEndHour |-> 22]

Missing == [kind |-> "undefined", value |-> 0]
NotNumeric == [kind |-> "text", value |-> 0]
Stored(n) == [kind |-> "number", value |-> n]
StoredValues == {Missing, NotNumeric} \cup {Stored(n) : n \in (0 - 2)..MaxStored}

NaN == [nan |-> TRUE, value |-> 0]

\* Number(value) of a stored value
ToNumber(stored) ==
  IF stored.kind = "number" THEN [nan |-> FALSE, value |-> stored.value] ELSE NaN

\* number || default: NaN and 0 are falsy
OrDefault(number, default) ==
  IF number.nan \/ number.value = 0 THEN default ELSE number.value

Min(a, b) == IF a <= b THEN a ELSE b

loadDayStartHour(stored) ==
  Min(23, Max(0, OrDefault(ToNumber(stored), DEFAULT_SETTINGS.dayStartHour)))

loadDayEndHour(stored) ==
  LET rawDayEndHour == OrDefault(ToNumber(stored), DEFAULT_SETTINGS.dayEndHour)
  IN Min(30, Max(0, rawDayEndHour))

InitSettings ==
  /\ LayoutIdle
  /\ ParseIdle
  /\ ResolveIdle
  /\ ScanIdle
  /\ FormatIdle
  /\ ConvertIdle
  /\ ModeIdle
  /\ MatchIdle
  /\ SidebarIdle
  /\ storedStart \in StoredValues
  /\ storedEnd \in StoredValues
  /\ loadedStart = 0
  /\ loadedEnd = 0
  /\ settingsPc = "stored"
  /\ PipelineIdle
  /\ GridIdle

SettingsOthers ==
  <<layoutVars, parseVars, resolveVars, scanVars, formatVars, convertVars, modeVars,
    matchVars, sidebarVars,
    pipelineVars, gridVars>>

\* loadSettings(extensionAPI)
LoadSettings ==
  /\ settingsPc = "stored"
  /\ loadedStart' = loadDayStartHour(storedStart)
  /\ loadedEnd' = loadDayEndHour(storedEnd)
  /\ settingsPc' = "loaded"
  /\ UNCHANGED <<storedStart, storedEnd, SettingsOthers>>

NextSettings == LoadSettings

SpecSettings == InitSettings /\ [][NextSettings]_vars

(***************************************************************************)
(* One matcher tested on one text: [lead] opener tag closer [follower],     *)
(* with the tag written in several cases.                                   *)
(***************************************************************************)
TagMap == [tag |-> <<"m", "a", "p">>, color |-> Green, isPageRef |-> FALSE]
TagMapUpper == [tag |-> <<"M", "a", "p">>, color |-> Green, isPageRef |-> FALSE]
MatchConfigs == {TagMap, TagMapUpper}

MatchLeads == {<<>>, <<"x", " ">>, <<"#">>}
MatchOpeners == {<<>>, <<"#">>, <<"#", "[", "[">>, <<"[", "[">>}
MatchWritten == {<<"m", "a", "p">>, <<"M", "A", "P">>, <<"M", "a", "p">>, <<"m", "a">>}
MatchClosers == {<<>>, <<"]">>, <<"]", "]">>}
MatchFollowers ==
  {<<>>, <<"2">>, <<"-", "x">>, <<"_">>, <<" ", "x">>, <<"P">>, <<".">>,
   <<" ", "#", "m", "a", "p">>}

MatchTexts ==
  {lead \o opener \o written \o closer \o follower :
     lead \in MatchLeads, opener \in MatchOpeners, written \in MatchWritten,
     closer \in MatchClosers, follower \in MatchFollowers}

InitMatch ==
  /\ LayoutIdle
  /\ ParseIdle
  /\ ResolveIdle
  /\ ScanIdle
  /\ FormatIdle
  /\ ConvertIdle
  /\ ModeIdle
  /\ SidebarIdle
  /\ SettingsIdle
  /\ matchConfig \in MatchConfigs
  /\ matchText \in MatchTexts
  /\ matched = FALSE
  /\ matchPc = "made"
  /\ PipelineIdle
  /\ GridIdle

MatchOthers ==
  <<layoutVars, parseVars, resolveVars, scanVars, formatVars, convertVars, modeVars,
    sidebarVars, settingsVars,
    pipelineVars, gridVars>>

\* createTagMatcher(config).test(text)
TestMatcher ==
  /\ matchPc = "made"
  /\ matched' = TagRegexTest(createTagMatcher(matchConfig), matchText)
  /\ matchPc' = "tested"
  /\ UNCHANGED <<matchConfig, matchText, MatchOthers>>

NextMatch == TestMatcher

SpecMatch == InitMatch /\ [][NextMatch]_vars

(***************************************************************************)
(* The two modes of the resolver on one store: findAssociatedTag fetches    *)
(* text and parent from the store, the batch resolver reads maps that hold  *)
(* the store's texts and parents.                                           *)
(***************************************************************************)
WalkOff ==
  /\ blockUid = NoUid
  /\ currentUid = NoUid
  /\ visited = {}
  /\ depth = 0
  /\ visitLog = <<>>
  /\ walkResult = Null
  /\ walkPc = "off"

InitModes ==
  /\ LayoutIdle
  /\ ParseIdle
  /\ ScanIdle
  /\ FormatIdle
  /\ ConvertIdle
  /\ InitSmallGraph \/ InitChain \/ InitOrdered
  /\ WalkOff
  /\ modeUid = NoUid
  /\ singleResult = Null
  /\ batchResult = Null
  /\ modePc = "store"
  /\ MatchIdle
  /\ SidebarIdle
  /\ SettingsIdle
  /\ PipelineIdle
  /\ GridIdle

ModeOthers ==
  <<layoutVars, parseVars, resolveVars, scanVars, formatVars, convertVars, matchVars,
    sidebarVars, settingsVars,
    pipelineVars, gridVars>>

\* findAssociatedTag(blockUid, configuredTags)
FindSingle(uid) ==
  /\ modePc = "store"
  /\ modeUid' = uid
  /\ singleResult' = findAssociatedTag(uid, configuredTags, contentMap, parentMap)
  /\ modePc' = "single"
  /\ UNCHANGED <<batchResult, ModeOthers>>

\* createBatchTagResolver(configuredTags, contentMap, parentMap)(blockUid)
FindBatch ==
  /\ modePc = "single"
  /\ batchResult' = ResolveTag(modeUid, configuredTags, contentMap, parentMap)
  /\ modePc' = "both"
  /\ UNCHANGED <<modeUid, singleResult, ModeOthers>>

NextModes ==
  \/ \E uid \in resolveUids : FindSingle(uid)
  \/ FindBatch

SpecModes == InitModes /\ [][NextModes]_vars

(***************************************************************************)
(* Array.prototype.sort, a stable sort.  cmp[i, j] is the comparator on    *)
(* the elements at input positions i and j.  The element at input position *)
(* i lands behind every element that compares lower and behind the equal   *)
(* elements that precede it in the input.                                  *)
(***************************************************************************)
StableSort(s, cmp) ==
  LET rank(i) == 1 + Cardinality({j \in 1..Len(s) :
                        \/ cmp[j, i] < 0
                        \/ (cmp[j, i] = 0 /\ j < i)})
  IN [k \in 1..Len(s) |-> s[CHOOSE i \in 1..Len(s) : rank(i) = k]]

(***************************************************************************)
(* ui/TimeGrid.tsx: calculateBlockLayouts                                  *)
(***************************************************************************)
StartOf(block) == block.timeRange.startHour * 60 + block.timeRange.startMinute
EndOf(block) == block.timeRange.endHour * 60 + block.timeRange.endMinute

\* mutant: ties of the start are broken by the shorter block first
LayoutCompareShortFirst(a, b) ==
  IF StartOf(a) # StartOf(b) THEN StartOf(a) - StartOf(b) ELSE EndOf(a) - EndOf(b)

\* the comparator of the sort: start ascending, then end descending
LayoutCompare(a, b) ==
  IF StartOf(a) # StartOf(b) THEN StartOf(a) - StartOf(b) ELSE EndOf(b) - EndOf(a)

\* mutant: the frontier is compared with the end of the block
FirstFreeColumnBusy(columns, start, end) ==
  IF \E i \in 1..Len(columns) : columns[i] <= end
  THEN (CHOOSE i \in 1..Len(columns) :
          /\ columns[i] <= end
          /\ \A j \in 1..(i - 1) : ~(columns[j] <= end)) - 1
  ELSE -1

\* the inner for loop: the first column index (0-based) whose frontier is
\* <= start, or -1
FirstFreeColumn(columns, start, end) ==
  IF \E i \in 1..Len(columns) : columns[i] <= start
  THEN (CHOOSE i \in 1..Len(columns) :
          /\ columns[i] <= start
          /\ \A j \in 1..(i - 1) : ~(columns[j] <= start)) - 1
  ELSE -1

\* the first loop over sorted: columns is the list of frontiers, layouts the
\* map uid -> column
RECURSIVE AssignColumns(_, _, _, _)
AssignColumns(sorted, k, columns, layouts) ==
  IF k > Len(sorted) THEN layouts
  ELSE LET block == sorted[k]
           found == FirstFreeColumn(columns, StartOf(block), EndOf(block))
           column == IF found = -1 THEN Len(columns) ELSE found
           columns2 == IF found = -1 THEN Append(columns, EndOf(block))
                       ELSE [columns EXCEPT ![column + 1] = EndOf(block)]
           layouts2 == [u \in DOMAIN layouts \cup {block.uid} |->
                          IF u = block.uid THEN column ELSE layouts[u]]
       IN AssignColumns(sorted, k + 1, columns2, layouts2)

\* mutant: blocks that only touch count as overlapping
OverlapsOrTouches(start, end, otherStart, otherEnd) ==
  start <= otherEnd /\ end >= otherStart

\* the overlap test of the second loop
Overlaps(start, end, otherStart, otherEnd) == start < otherEnd /\ end > otherStart

\* mutant: maxColumn does not start from the column of the block itself
MaxColumnOfOthers(sorted, layouts, block, k, maxColumn) ==
  SetMax({0} \cup {layouts[sorted[j].uid] : j \in {i \in k..Len(sorted) :
             /\ sorted[i].uid # block.uid
             /\ Overlaps(StartOf(block), EndOf(block),
                         StartOf(sorted[i]), EndOf(sorted[i]))}})

\* the second loop: maxColumn over the blocks that overlap block
RECURSIVE MaxColumnFrom(_, _, _, _, _)
MaxColumnFrom(sorted, layouts, block, k, maxColumn) ==
  IF k > Len(sorted) THEN maxColumn
  ELSE LET other == sorted[k]
       IN IF other.uid = block.uid
          THEN MaxColumnFrom(sorted, layouts, block, k + 1, maxColumn)
          ELSE IF Overlaps(StartOf(block), EndOf(block), StartOf(other), EndOf(other))
               THEN MaxColumnFrom(sorted, layouts, block, k + 1,
                                  Max(maxColumn, layouts[other.uid]))
               ELSE MaxColumnFrom(sorted, layouts, block, k + 1, maxColumn)

calculateBlockLayouts(blocks) ==
  IF Len(blocks) = 0 THEN <<>>
  ELSE LET sorted == StableSort(blocks, [i \in 1..Len(blocks), j \in 1..Len(blocks) |->
                                          LayoutCompare(blocks[i], blocks[j])])
           layouts == AssignColumns(sorted, 1, <<>>, <<>>)
       IN [k \in 1..Len(sorted) |->
             [block |-> sorted[k],
              column |-> layouts[sorted[k].uid],
              totalColumns |->
                MaxColumnFrom(sorted, layouts, sorted[k], 1, layouts[sorted[k].uid]) + 1]]

\* ui/TimeBlock.tsx: the slot a block is drawn in, as fractions of the
\* container width with denominator totalColumns: widthPercent is
\* 100 / totalColumns and leftPercent is column * widthPercent
DrawnSlot(entry) ==
  [left |-> entry.column, right |-> entry.column + 1, parts |-> entry.totalColumns]

(***************************************************************************)
(* The inputs of the layout: block i of the list has uid i and a time      *)
(* range between two grid slots, end >= start.                             *)
(***************************************************************************)
SlotRange(s, e) ==
  [startHour |-> (s * DEFAULT_GRANULARITY) \div 60,
   startMinute |-> (s * DEFAULT_GRANULARITY) % 60,
   endHour |-> (e * DEFAULT_GRANULARITY) \div 60,
   endMinute |-> (e * DEFAULT_GRANULARITY) % 60]

SlotRanges ==
  {SlotRange(p[1], p[2]) : p \in {q \in (0..MaxSlot) \X (0..MaxSlot) : q[2] >= q[1]}}

BlockLists ==
  UNION {[1..n -> SlotRanges] : n \in 0..MaxBlocks}

BlocksOf(ranges) == [i \in 1..Len(ranges) |-> [uid |-> i, timeRange |-> ranges[i]]]

\* the orders the blocks of a list can be given in
Orders(n) == {f \in [1..n -> 1..n] : \A i, j \in 1..n : f[i] = f[j] => i = j}

\* two lists of the documentation, in minutes of the day: A 0-60, B 30-90,
\* C 100-120, and A 0-90, B 0-30; the uid of a block is its place in the list
MinuteRange(s, e) ==
  [startHour |-> s \div 60, startMinute |-> s % 60,
   endHour |-> e \div 60, endMinute |-> e % 60]

ThreeBlockFixture == <<MinuteRange(0, 60), MinuteRange(30, 90), MinuteRange(100, 120)>>
SameStartFixture == <<MinuteRange(0, 90), MinuteRange(0, 30)>>

\* four staggered blocks: A 0:00-2:00, B 1:00-4:00, C 2:00-5:00, D 3:00-5:00
StaggeredFixture ==
  <<MinuteRange(0, 120), MinuteRange(60, 240), MinuteRange(120, 300), MinuteRange(180, 300)>>

\* a list in every order it can be given in
Reordered(blocks) ==
  {[k \in 1..Len(blocks) |-> blocks[order[k]]] : order \in Orders(Len(blocks))}

FixtureLists ==
  Reordered(BlocksOf(ThreeBlockFixture)) \cup Reordered(BlocksOf(SameStartFixture))
    \cup Reordered(BlocksOf(StaggeredFixture))

InitLayout ==
  /\ ParseIdle
  /\ ResolveIdle
  /\ ScanIdle
  /\ FormatIdle
  /\ ConvertIdle
  /\ ExtraIdle
  /\ timeBlocks \in {BlocksOf(r) : r \in BlockLists} \cup FixtureLists
  /\ blockLayouts = <<>>
  /\ layoutPc = "props"

\* TimeGrid renders: blockLayouts = useMemo(() => calculateBlockLayouts(timeBlocks))
RenderLayout ==
  /\ layoutPc = "props"
  /\ blockLayouts' = calculateBlockLayouts(timeBlocks)
  /\ layoutPc' = "laid"
  /\ UNCHANGED <<timeBlocks, parseVars, resolveVars, scanVars, formatVars, convertVars, extraVars>>

NextLayout == RenderLayout

SpecLayout == InitLayout /\ [][NextLayout]_vars

(***************************************************************************)
(* core/blockScanner.ts                                                    *)
(***************************************************************************)
\* ui/CalendarSidebar.tsx: the hour of the next day up to which it is scanned
getDayBoundaryHour(endHour) == IF endHour > 24 THEN endHour - 24 ELSE 0

\* api/roamQueries.ts: the blocks of a page with the text and the parent of
\* every block of the page
getBlockHierarchyData(page) ==
  LET at(uid) == CHOOSE i \in 1..Len(page) : page[i].uid = uid
      uids == {page[i].uid : i \in 1..Len(page)}
  IN [blocks |-> page,
      contentMap |-> [uid \in uids |-> page[at(uid)].string],
      parentMap |-> [uid \in uids |-> page[at(uid)].parentUid]]

\* the block of the next day's page starts at or after the day boundary
PastBoundary(isNextDay, timeRange, dayBoundaryHour) ==
  isNextDay /\ timeRange.startHour >= dayBoundaryHour

\* mutant: blocks without a tag are dropped whatever is configured
KeepBlockTaggedOnly(tag, tags) == tag # Null

\* a matching tag was found, or no tags are configured
KeepBlock(tag, tags) == tag # Null \/ Len(tags) = 0

\* mutant: only the start of a next-day block moves
AdjustStartOnly(isNextDay, timeRange) ==
  IF isNextDay
  THEN [timeRange EXCEPT !.startHour = timeRange.startHour + 24]
  ELSE timeRange

\* next-day blocks are displayed 24 hours later
AdjustTimeRange(isNextDay, timeRange) ==
  IF isNextDay
  THEN [timeRange EXCEPT !.startHour = timeRange.startHour + 24,
                         !.endHour = timeRange.endHour + 24]
  ELSE timeRange

\* the texts the blocks of the scanned pages are written with
EarlyText == <<"4", ":", "3", "0", "-", "5", ":", "0", "0">>
DawnText == <<"4", ":", "0", "0", "-", "4", ":", "1", "5">>
BoundaryText == <<"5", ":", "0", "0", "-", "7", ":", "0", "0", " ", "#", "h", "o", "m", "e">>
BackwardText == <<"9", ":", "0", "0", "-", "8", ":", "0", "0">>
PageTexts == {EarlyText, DawnText, BoundaryText, BackwardText, WorkText}

\* parseTimeRange(block.string), computed once for each text of a page
LongDawnText == <<"4", ":", "0", "0", "-", "5", ":", "0", "0", " ", "#", "h", "o", "m", "e">>
PipelineTexts == {DawnText, LongDawnText, BackwardText, WorkText}

ParsedTexts == [text \in PageTexts \cup PipelineTexts |-> parseTimeRange(text)]
ParseBlock(block) == ParsedTexts[block.string]

\* the body of the for loop: what one block pushes onto timeBlocks
ScanBlock(block, data, tags, isNextDay, dayBoundaryHour) ==
  LET timeRange == ParseBlock(block)
      tag == ResolveTag(block.uid, tags, data.contentMap, data.parentMap)
  IN IF timeRange = Null THEN <<>>
     ELSE IF PastBoundary(isNextDay, timeRange, dayBoundaryHour) THEN <<>>
     ELSE IF KeepBlock(tag, tags)
          THEN <<[uid |-> block.uid,
                  text |-> block.string,
                  timeRange |-> AdjustTimeRange(isNextDay, timeRange),
                  tag |-> tag,
                  parentUid |-> block.parentUid,
                  order |-> block.order]>>
          ELSE <<>>

\* mutant: the loop ends at the first record without a valid interval
RECURSIVE ScanLoopStopAtInvalid(_, _, _, _, _)
ScanLoopStopAtInvalid(k, data, tags, isNextDay, dayBoundaryHour) ==
  IF k > Len(data.blocks) THEN <<>>
  ELSE IF ParseBlock(data.blocks[k]) = Null THEN <<>>
  ELSE ScanBlock(data.blocks[k], data, tags, isNextDay, dayBoundaryHour)
         \o ScanLoopStopAtInvalid(k + 1, data, tags, isNextDay, dayBoundaryHour)

RECURSIVE ScanLoop(_, _, _, _, _)
ScanLoop(k, data, tags, isNextDay, dayBoundaryHour) ==
  IF k > Len(data.blocks) THEN <<>>
  ELSE ScanBlock(data.blocks[k], data, tags, isNextDay, dayBoundaryHour)
         \o ScanLoop(k + 1, data, tags, isNextDay, dayBoundaryHour)

scanPageForTimeBlocks(page, tags, isNextDay, dayBoundaryHour) ==
  ScanLoop(1, getBlockHierarchyData(page), tags, isNextDay, dayBoundaryHour)

\* mutant: the comparator puts later starts first
ScanCompareReversed(a, b) == StartOf(b) - StartOf(a)

\* the comparator of the sort: aMinutes - bMinutes
ScanCompare(a, b) == StartOf(a) - StartOf(b)

\* allBlocks.sort(...)
SortByStart(allBlocks) ==
  StableSort(allBlocks, [i \in 1..Len(allBlocks), j \in 1..Len(allBlocks) |->
                          ScanCompare(allBlocks[i], allBlocks[j])])

(***************************************************************************)
(* The inputs of the scanner: two pages of at most MaxScanBlocks blocks    *)
(* together, every block a child of the page or of an earlier block of its *)
(* page, in any order of their times; the configured tags; dayEndHour.     *)
(***************************************************************************)
DayEndHours == {24, 29}

\* the pages of n blocks with the uids first + 1 .. first + n
Pages(first, n) ==
  {[i \in 1..n |-> [uid |-> first + i,
                    string |-> texts[i],
                    order |-> i - 1,
                    parentUid |-> IF up[i] = 0 THEN NoUid ELSE first + up[i]]] :
     texts \in [1..n -> PageTexts],
     up \in {f \in [1..n -> 0..n] : \A i \in 1..n : f[i] < i}}

InitScan ==
  /\ LayoutIdle
  /\ ParseIdle
  /\ ResolveIdle
  /\ FormatIdle
  /\ ConvertIdle
  /\ ExtraIdle
  /\ \E n \in 0..MaxScanBlocks, m \in 0..MaxScanBlocks :
       /\ n + m <= MaxScanBlocks
       /\ targetPage \in Pages(0, n)
       /\ nextDayPage \in Pages(MaxScanBlocks, m)
  /\ scanTags \in TagLists
  /\ dayEndHour \in DayEndHours
  /\ targetBlocks = <<>>
  /\ nextDayBlocks = <<>>
  /\ dateBlocks = <<>>
  /\ scanPc = "settings"

\* refreshTimeBlocks of the sidebar: scanDateForTimeBlocks with the boundary
\* of the settings; it scans the two pages, then combines and sorts
ScanDate ==
  /\ scanPc = "settings"
  /\ LET dayBoundaryHour == getDayBoundaryHour(dayEndHour)
     IN /\ targetBlocks' = scanPageForTimeBlocks(targetPage, scanTags, FALSE, dayBoundaryHour)
        /\ nextDayBlocks' = scanPageForTimeBlocks(nextDayPage, scanTags, TRUE, dayBoundaryHour)
        /\ dateBlocks' = SortByStart(targetBlocks' \o nextDayBlocks')
  /\ scanPc' = "scanned"
  /\ UNCHANGED <<targetPage, nextDayPage, scanTags, dayEndHour, layoutVars, parseVars,
                 resolveVars, formatVars, convertVars, extraVars>>

NextScan == ScanDate

SpecScan == InitScan /\ [][NextScan]_vars

\* the parser called on written texts, and the scan calling it on the
\* records of a page
InitParseScan == InitParse \/ InitScan

NextParseScan == NextParse \/ NextScan

SpecParseScan == InitParseScan /\ [][NextParseScan]_vars

(***************************************************************************)
(* Claims about the layout.                                                *)
(***************************************************************************)
LaidStart(i) == StartOf(blockLayouts[i].block)
LaidEnd(i) == EndOf(blockLayouts[i].block)
LaidOverlap(i, j) == LaidStart(i) < LaidEnd(j) /\ LaidStart(j) < LaidEnd(i)

\* C1: two blocks of the layout that were given the same column never have
\* overlapping [start, end) ranges.
C1_SameColumnNeverOverlaps ==
  layoutPc = "laid" =>
    \A i, j \in 1..Len(blockLayouts) :
      (i # j /\ blockLayouts[i].column = blockLayouts[j].column)
        => ~LaidOverlap(i, j)

\* C1 witness: a layout of MaxBlocks blocks in which a column is reused by a
\* later block while other blocks overlap and sit in different columns.
C1_Witness ==
  /\ layoutPc = "laid"
  /\ Len(blockLayouts) >= 3
  /\ \E i, j \in 1..Len(blockLayouts) :
        i # j /\ blockLayouts[i].column = blockLayouts[j].column
  /\ \E i, j \in 1..Len(blockLayouts) : i # j /\ LaidOverlap(i, j)

\* the overlap group of entry i: the entries connected to it by a chain of
\* pairwise overlaps
RECURSIVE OverlapGroup(_)
OverlapGroup(S) ==
  LET S2 == S \cup {j \in 1..Len(blockLayouts) : \E i \in S : LaidOverlap(i, j)}
  IN IF S2 = S THEN S ELSE OverlapGroup(S2)

\* C2 (as claimed): every block's totalColumns is one more than the largest
\* column index held in its overlap group.
C2_TotalColumnsIsGroupSpan ==
  layoutPc = "laid" =>
    \A i \in 1..Len(blockLayouts) :
      blockLayouts[i].totalColumns =
        1 + SetMax({blockLayouts[j].column : j \in OverlapGroup({i})})

\* C11: every entry of the layout has 0 <= column < totalColumns and
\* totalColumns >= 1, and the layout holds every input block exactly once.
C11_ColumnWithinTotalAndOnePerBlock ==
  layoutPc = "laid" =>
    /\ \A i \in 1..Len(blockLayouts) :
         /\ 0 <= blockLayouts[i].column
         /\ blockLayouts[i].column < blockLayouts[i].totalColumns
         /\ blockLayouts[i].totalColumns >= 1
    /\ Len(blockLayouts) = Len(timeBlocks)
    /\ \A k \in 1..Len(timeBlocks) :
         Cardinality({i \in 1..Len(blockLayouts) :
                        blockLayouts[i].block = timeBlocks[k]}) = 1

\* C11 witness: a layout of blocks given out of order in which a block that
\* overlaps nothing sits in a column other than the first.
C11_Witness ==
  /\ layoutPc = "laid"
  /\ Len(timeBlocks) >= 3
  /\ \E k \in 1..(Len(timeBlocks) - 1) : StartOf(timeBlocks[k]) > StartOf(timeBlocks[k + 1])
  /\ \E i \in 1..Len(blockLayouts) :
       /\ blockLayouts[i].column >= 1
       /\ \A j \in 1..Len(blockLayouts) : j # i => LaidStart(j) >= LaidEnd(i)

\* the entry a layout holds for the block of a uid
EntryOf(layout, uid) == layout[CHOOSE i \in 1..Len(layout) : layout[i].block.uid = uid]

\* C12 (as claimed): whatever order the same blocks are given in, every uid
\* gets the same column and the same totalColumns.
C12_LayoutIndependentOfInputOrder ==
  layoutPc = "laid" =>
    \A order \in Orders(Len(timeBlocks)) :
      LET reordered == calculateBlockLayouts([k \in 1..Len(timeBlocks) |->
                                               timeBlocks[order[k]]])
      IN \A k \in 1..Len(timeBlocks) :
           /\ EntryOf(reordered, timeBlocks[k].uid).column
                = EntryOf(blockLayouts, timeBlocks[k].uid).column
           /\ EntryOf(reordered, timeBlocks[k].uid).totalColumns
                = EntryOf(blockLayouts, timeBlocks[k].uid).totalColumns

\* entry i overlaps no other entry
LaidAlone(i) == \A j \in 1..Len(blockLayouts) : j # i => ~LaidOverlap(i, j)

\* C13 (as claimed): a block that overlaps no other block of the input is
\* laid out as column 0 of totalColumns 1.
C13_LoneBlockIsColumnZeroOfOne ==
  layoutPc = "laid" =>
    \A i \in 1..Len(blockLayouts) :
      LaidAlone(i) => blockLayouts[i].column = 0 /\ blockLayouts[i].totalColumns = 1

\* the input is the given list in some order
GivenFixture(fixture) == timeBlocks \in Reordered(BlocksOf(fixture))

\* C14: the layout lists the blocks by start ascending and, for equal
\* starts, by end descending; of two blocks with the same start and
\* different ends the longer one has the lower column; A 0-90, B 0-30 gives
\* A column 0, B column 1, both of totalColumns 2.
C14_LongerFirstOnEqualStart ==
  layoutPc = "laid" =>
    /\ \A i, j \in 1..Len(blockLayouts) :
         /\ i < j => \/ LaidStart(i) < LaidStart(j)
                     \/ LaidStart(i) = LaidStart(j) /\ LaidEnd(i) >= LaidEnd(j)
         /\ (LaidStart(i) = LaidStart(j) /\ LaidEnd(i) > LaidEnd(j)) =>
              blockLayouts[i].column < blockLayouts[j].column
    /\ GivenFixture(SameStartFixture) =>
         /\ EntryOf(blockLayouts, 1).column = 0
         /\ EntryOf(blockLayouts, 2).column = 1
         /\ EntryOf(blockLayouts, 1).totalColumns = 2
         /\ EntryOf(blockLayouts, 2).totalColumns = 2

\* C14 witness: A 0-90 and B 0-30 were given as B, A and laid out.
C14_Witness ==
  /\ layoutPc = "laid"
  /\ GivenFixture(SameStartFixture)
  /\ timeBlocks[1].uid = 2

\* one more than the largest column among entry i and the entries that
\* overlap it, entry j left out
TotalWithout(i, j) ==
  1 + SetMax({blockLayouts[i].column} \cup
             {blockLayouts[k].column : k \in {n \in 1..Len(blockLayouts) :
                                                n # i /\ n # j /\ LaidOverlap(i, n)}})

\* C15: when a block ends at the minute another starts, the one placed
\* later takes the column of the earlier one or a lower one, unless a block
\* placed between them took that column; and neither counts for the
\* totalColumns of the other.
C15_TouchingBlocksAreNotConcurrent ==
  layoutPc = "laid" =>
    \A i, j \in 1..Len(blockLayouts) :
      (i # j /\ LaidEnd(i) = LaidStart(j)) =>
        /\ blockLayouts[i].totalColumns = TotalWithout(i, j)
        /\ blockLayouts[j].totalColumns = TotalWithout(j, i)
        /\ i < j =>
             \/ blockLayouts[j].column <= blockLayouts[i].column
             \/ \E k \in (i + 1)..(j - 1) : blockLayouts[k].column = blockLayouts[i].column
        /\ Len(blockLayouts) = 2 /\ i < j =>
             /\ blockLayouts[i].column = 0 /\ blockLayouts[i].totalColumns = 1
             /\ blockLayouts[j].column = 0 /\ blockLayouts[j].totalColumns = 1

\* C15 witness: beside a longer block, a block ends at the minute the next
\* starts and both sit in the same column, not the first, of two.
C15_Witness ==
  /\ layoutPc = "laid"
  /\ \E i, j \in 1..Len(blockLayouts) :
       /\ i < j
       /\ LaidStart(i) < LaidEnd(i)
       /\ LaidEnd(i) = LaidStart(j)
       /\ LaidStart(j) < LaidEnd(j)
       /\ blockLayouts[i].column = blockLayouts[j].column
       /\ blockLayouts[i].column >= 1
       /\ blockLayouts[i].totalColumns = 2
       /\ blockLayouts[j].totalColumns = 2

\* slot a ends at or before the start of slot b: a.right / a.parts <= b.left / b.parts
SlotBefore(a, b) == a.right * b.parts <= b.left * a.parts

\* C24: two blocks whose time ranges overlap are drawn in disjoint slots
\* [column / totalColumns, (column + 1) / totalColumns) of the width.
C24_OverlappingBlocksDrawnApart ==
  layoutPc = "laid" =>
    \A i, j \in 1..Len(blockLayouts) :
      (i # j /\ LaidOverlap(i, j)) =>
        \/ SlotBefore(DrawnSlot(blockLayouts[i]), DrawnSlot(blockLayouts[j]))
        \/ SlotBefore(DrawnSlot(blockLayouts[j]), DrawnSlot(blockLayouts[i]))

\* the columns the layout uses
UsedColumns == {blockLayouts[i].column : i \in 1..Len(blockLayouts)}

\* the entries placed before entry i (the layout is in placement order) in
\* column c, and the frontier of that column when i is placed
PlacedBefore(i, c) == {j \in 1..(i - 1) : blockLayouts[j].column = c}
FrontierAt(i, c) == LaidEnd(SetMax(PlacedBefore(i, c)))

\* entry i was given the lowest column whose frontier is at or before its start
LowestFreeColumn(i) ==
  /\ \A c \in 0..(blockLayouts[i].column - 1) :
       PlacedBefore(i, c) # {} /\ FrontierAt(i, c) > LaidStart(i)
  /\ PlacedBefore(i, blockLayouts[i].column) # {}
       => FrontierAt(i, blockLayouts[i].column) <= LaidStart(i)

\* the largest number of blocks that pairwise overlap in time
PairwiseOverlapping(group) == \A i, j \in group : i # j => LaidOverlap(i, j)
LargestOverlap ==
  SetMax({Cardinality(group) : group \in
            {g \in SUBSET (1..Len(blockLayouts)) : PairwiseOverlapping(g)}})

ColumnsContiguous == UsedColumns = 0..(Cardinality(UsedColumns) - 1)

\* C30: every block gets the lowest column that is free at its start, the
\* used columns are 0..k-1, and k is the largest number of blocks that
\* pairwise overlap in time.
C30_FirstFitUsesFewestColumns ==
  (layoutPc = "laid" /\ Len(blockLayouts) > 0) =>
    /\ \A i \in 1..Len(blockLayouts) : LowestFreeColumn(i)
    /\ ColumnsContiguous
    /\ Cardinality(UsedColumns) = LargestOverlap

\* the first two parts of C30, which hold
C30_FirstFitPart ==
  (layoutPc = "laid" /\ Len(blockLayouts) > 0) =>
    /\ \A i \in 1..Len(blockLayouts) : LowestFreeColumn(i)
    /\ ColumnsContiguous

\* the last part of C30 on blocks of positive length
C30_FewestColumnsPositiveLength ==
  (layoutPc = "laid" /\ Len(blockLayouts) > 0
     /\ \A i \in 1..Len(blockLayouts) : LaidEnd(i) > LaidStart(i))
    => Cardinality(UsedColumns) = LargestOverlap

(***************************************************************************)
(* Claims about the parser.                                                *)
(***************************************************************************)
StartTotal(range) == range.startHour * 60 + range.startMinute
EndTotal(range) == range.endHour * 60 + range.endMinute

\* C3: a non-null result of parseTimeRange has hours in 0..23, minutes in
\* 0..59 and an end total that is not before its start total, so both totals
\* lie in 0..1439.
C3_ParsedRangeIsValid ==
  (parsePc = "parsed" /\ parsed # Null) =>
    /\ parsed.startHour \in 0..23 /\ parsed.endHour \in 0..23
    /\ parsed.startMinute \in 0..59 /\ parsed.endMinute \in 0..59
    /\ EndTotal(parsed) >= StartTotal(parsed)
    /\ StartTotal(parsed) \in 0..1439 /\ EndTotal(parsed) \in 0..1439

\* C3 witness: a range whose end equals its start was returned.
C3_Witness ==
  /\ parsePc = "parsed" /\ parsed # Null
  /\ EndTotal(parsed) = StartTotal(parsed)

\* what the pieces of a text say, read as a 24-hour range
WrittenRange(p) ==
  [startHour |-> ParseInt(p.h1), startMinute |-> ParseInt(Tail(p.m1)),
   endHour |-> ParseInt(p.h2), endMinute |-> ParseInt(Tail(p.m2))]

Is24HourText(p) == p.m1 # <<>> /\ p.m2 # <<>> /\ p.p1 = <<>> /\ p.p2 = <<>>
Is12HourText(p) == p.m1 # <<>> /\ p.m2 # <<>> /\ p.p1 # <<>> /\ p.p2 # <<>>

SameTimes(range, w) ==
  /\ range.startHour = w.startHour /\ range.startMinute = w.startMinute
  /\ range.endHour = w.endHour /\ range.endMinute = w.endMinute

\* C4 (as claimed): a text holding a valid 24-hour range with no am/pm marker
\* behind it is parsed by the 24-hour pattern to that range, whatever free
\* text follows; a 12-hour text with minutes is never parsed by the 24-hour
\* pattern, and by the 12-hour-with-minutes pattern when it is parsed.
C4_TwentyFourHourParsedWhateverFollows ==
  parsePc = "parsed" =>
    /\ (Is24HourText(textParts) /\ isValidTimeRange(WrittenRange(textParts)))
         => (parsedBy = 1 /\ parsed # Null /\ SameTimes(parsed, WrittenRange(textParts)))
    /\ Is12HourText(textParts) => (parsedBy # 1 /\ (parsed # Null => parsedBy = 2))

\* pattern k matches the text and what it captured is a valid range
Yields(k, text) ==
  LET match == RegexMatch(TIME_PATTERNS[k], text)
  IN match.ok /\ isValidTimeRange(TimeParse(k, match))

\* C16: parseTimeRange returns the result of the first pattern, in the order
\* 24-hour, 12-hour with minutes, 12-hour without minutes, that both matches
\* and passes validation: no earlier pattern yields a valid range, and null
\* is returned exactly when no pattern does.
C16_FirstValidPatternWins ==
  parsePc = "parsed" =>
    /\ parsed = Null <=> (\A k \in 1..3 : ~Yields(k, inputText))
    /\ parsed = Null <=> parsedBy = 0
    /\ parsed # Null =>
         /\ parsedBy \in 1..3
         /\ Yields(parsedBy, inputText)
         /\ parsed = TimeParse(parsedBy, RegexMatch(TIME_PATTERNS[parsedBy], inputText))
         /\ \A k \in 1..(parsedBy - 1) : ~Yields(k, inputText)

\* C16 witness: a later pattern's result was returned after an earlier
\* pattern had matched an invalid range.
C16_Witness ==
  /\ parsePc = "parsed"
  /\ parsedBy > 1
  /\ \E k \in 1..(parsedBy - 1) : RegexMatch(TIME_PATTERNS[k], inputText).ok

\* the four numbers are hours in 0..23, minutes in 0..59, end not before start
ValidArgs(a) ==
  /\ a.startHour \in 0..23 /\ a.endHour \in 0..23
  /\ a.startMinute \in 0..59 /\ a.endMinute \in 0..59
  /\ a.endHour * 60 + a.endMinute >= a.startHour * 60 + a.startMinute

\* C17: for hours in 0..23, minutes in 0..59 and an end not before the start,
\* parsing the text of formatTimeRange succeeds with the same four numbers,
\* originalText is the whole formatted text, and formatting the parsed range
\* gives that text again.
C17_FormatParseRoundTrip ==
  ValidArgs(formatArgs) =>
    /\ formatPc \in {"reparsed", "reformatted"} =>
         /\ reparsed # Null
         /\ reparsed.startHour = formatArgs.startHour
         /\ reparsed.startMinute = formatArgs.startMinute
         /\ reparsed.endHour = formatArgs.endHour
         /\ reparsed.endMinute = formatArgs.endMinute
         /\ reparsed.originalText = literal
    /\ formatPc = "reformatted" => reformatted = literal

\* C17 witness: a range with one-digit numbers and an end equal to its start
\* went through the round trip.
C17_Witness ==
  /\ formatPc = "reformatted"
  /\ formatArgs.startHour = 9 /\ formatArgs.startMinute = 5
  /\ formatArgs.endHour = 9 /\ formatArgs.endMinute = 5
  /\ literal = <<"0", "9", ":", "0", "5", "-", "0", "9", ":", "0", "5">>

AmSpellings == {<<"a", "m">>, <<"A", "M">>, <<"A", "m">>, <<"a", "M">>}
PmSpellings == {<<"p", "m">>, <<"P", "M">>, <<"P", "m">>, <<"p", "M">>}

\* C19: the 12-hour conversion gives 0 for 12 am and 12 for 12 pm, adds 12 to
\* every other hour for pm and leaves it as written for am, in any spelling
\* of the marker; a written hour in 1..12 is converted to an hour in 0..23.
C19_TwelveHourConversion ==
  convertPc = "converted" =>
    /\ marker \in AmSpellings \cup PmSpellings
    /\ (hour12 = 12 /\ marker \in AmSpellings) => hour24 = 0
    /\ (hour12 = 12 /\ marker \in PmSpellings) => hour24 = 12
    /\ (hour12 # 12 /\ marker \in PmSpellings) => hour24 = hour12 + 12
    /\ (hour12 # 12 /\ marker \in AmSpellings) => hour24 = hour12
    /\ hour12 \in 1..12 => hour24 \in 0..23

\* C19 witness: 12 with the marker written AM was converted to 0.
C19_Witness ==
  /\ convertPc = "converted"
  /\ hour12 = 12
  /\ marker = <<"A", "M">>
  /\ hour24 = 0

(***************************************************************************)
(* Claims about the resolver.                                              *)
(***************************************************************************)
Range(seq) == {seq[i] : i \in 1..Len(seq)}
SetMin(S) == CHOOSE x \in S : \A y \in S : x <= y

\* the record and its ancestors, n nodes: entry i is i - 1 hops above uid
\* (NoUid above the root)
RECURSIVE Lineage(_, _)
Lineage(uid, n) ==
  IF n = 0 THEN <<>>
  ELSE <<uid>> \o Lineage(IF uid = NoUid THEN NoUid ELSE MapGet(parentMap, uid, NoUid), n - 1)

\* the category the text of a node selects by itself
NodeTag(uid) ==
  IF uid = NoUid THEN Null
  ELSE findTagInTextWithMatchers(MapGet(contentMap, uid, <<>>), buildTagMatchers(configuredTags))

\* the category of the nearest matching node among the record and its
\* ancestors up to n - 1 hops above it; tagOf[u] is the category of node u
RECURSIVE NearestFrom(_, _, _)
NearestFrom(tagOf, uid, n) ==
  IF n = 0 \/ uid = NoUid THEN Null
  ELSE IF tagOf[uid] # Null THEN tagOf[uid]
  ELSE NearestFrom(tagOf, MapGet(parentMap, uid, NoUid), n - 1)

NearestTag(uid, n) == NearestFrom([u \in DOMAIN contentMap |-> NodeTag(u)], uid, n)

\* C5: the walk returns the category matched at the nearest node of the chain
\* record, parent, grandparent, ... (the chain of the MAX_PARENT_DEPTH nodes
\* the walk covers), never that of a farther node.
C5_NearestMatchWins ==
  walkPc = "done" => walkResult = NearestTag(blockUid, MAX_PARENT_DEPTH)

\* C5 witness: the record's text matches nothing, its parent is #work, its
\* grandparent #home, and the walk returned the category of #work.
C5_Witness ==
  /\ walkPc = "done" /\ walkResult = TagWork
  /\ LET line == Lineage(blockUid, 3)
     IN /\ NodeTag(line[1]) = Null
        /\ NodeTag(line[2]) = TagWork
        /\ NodeTag(line[3]) = TagHome

\* C6: on every parent map the walk looks at no uid twice and at no more than
\* MAX_PARENT_DEPTH uids, one per round, so it ends; it returns null when no
\* uid it looked at matches; and its result is the result of a walk that
\* starts from an empty visited set, whatever was resolved before.
C6_WalkBoundedAndPrivate ==
  walkPc \in {"loop", "done"} =>
    /\ depth = Len(visitLog) /\ depth <= MAX_PARENT_DEPTH
    /\ visited = Range(visitLog)
    /\ Cardinality(visited) = Len(visitLog)
    /\ walkPc = "done" =>
         /\ (\A i \in 1..Len(visitLog) : NodeTag(visitLog[i]) = Null) => walkResult = Null
         /\ walkResult = ResolveTag(blockUid, configuredTags, contentMap, parentMap)

\* C6 witness: a walk on a cyclic parent map came back to a uid it had
\* visited and returned null.
C6_Witness ==
  /\ walkPc = "done" /\ walkResult = Null
  /\ Len(visitLog) >= 2
  /\ currentUid \in visited

\* C7 (as claimed): a match on the record or on an ancestor at most
\* MAX_PARENT_DEPTH hops above it is found (the nearest one), and a record
\* with no match within that many hops resolves to null.
C7_MatchWithinFiftyHopsFound ==
  (walkPc = "done" /\ Len(configuredTags) > 0) =>
    walkResult = NearestTag(blockUid, MAX_PARENT_DEPTH + 1)

\* the tag of the config is written in the text, in one of its three forms
Mentions(text, config) == TagRegexTest(createTagMatcher(config), text)

\* the positions in the configured list of the tags the text of n mentions
MentionedAt(n) ==
  {k \in 1..Len(configuredTags) : Mentions(contentMap[n], configuredTags[k])}

\* the number of tags in the colour groups before group c
RECURSIVE TagsBefore(_)
TagsBefore(c) == IF c <= 1 THEN 0 ELSE TagsBefore(c - 1) + Len(colorConfigs[c - 1].tags)

\* C20: the walk returns, at the block where it stops with a category, the
\* category earliest in the configured list among those the text of that
\* block mentions; and the configured list holds the tags of the colour
\* configuration group after group, each group's tags in their order, with
\* the colour of their group.
C20_FirstConfiguredCategoryWins ==
  /\ (walkPc = "done" /\ walkResult # Null) =>
       LET n == visitLog[Len(visitLog)]
       IN /\ MentionedAt(n) # {}
          /\ walkResult = configuredTags[SetMin(MentionedAt(n))]
  /\ walkPc # "off" =>
       /\ Len(configuredTags) = TagsBefore(Len(colorConfigs) + 1)
       /\ \A c \in 1..Len(colorConfigs) :
            \A t \in 1..Len(colorConfigs[c].tags) :
              configuredTags[TagsBefore(c) + t] =
                [tag |-> colorConfigs[c].tags[t], color |-> colorConfigs[c].color,
                 isPageRef |-> FALSE]

\* C20 witness: the text names work before home, the colour configuration
\* names home in an earlier group than work, and the walk returned home.
C20_Witness ==
  /\ walkPc = "done"
  /\ walkResult # Null
  /\ contentMap[visitLog[Len(visitLog)]] = WorkHomeText
  /\ Len(colorConfigs) >= 2
  /\ configuredTags[1].tag = TagHome.tag
  /\ walkResult.tag = TagHome.tag

\* uid lies on a cycle of the parent relation
RECURSIVE ReachesIn(_, _, _)
ReachesIn(from, to, steps) ==
  IF steps = 0 \/ from = NoUid THEN FALSE
  ELSE LET up == MapGet(parentMap, from, NoUid)
       IN up = to \/ ReachesIn(up, to, steps - 1)

\* C21: on a store and maps with the same texts and parents, single mode and
\* batch mode return the same category or null for every record, cyclic
\* parent relations and chains of more than 50 ancestors included.
C21_SingleAndBatchAgree ==
  modePc = "both" => singleResult = batchResult

\* C21 witness: both modes returned a category for a record whose ancestors
\* form a cycle.
C21_Witness ==
  /\ modePc = "both"
  /\ ReachesIn(modeUid, modeUid, MaxNodes)
  /\ contentMap[modeUid] = PlainText
  /\ singleResult # Null
  /\ batchResult = singleResult

\* a record under more than 50 ancestors whose category lies too far up for
\* both modes
C21_WitnessLongChain ==
  /\ modePc = "both"
  /\ Len(contentMap) = ChainTop
  /\ \E u \in 1..ChainTop : u > MAX_PARENT_DEPTH /\ contentMap[u] = WorkText
  /\ modeUid = 1
  /\ singleResult = Null
  /\ batchResult = Null

\* the text holds sub at position i, compared without regard to case
HoldsAt(text, sub, i) ==
  /\ i + Len(sub) - 1 <= Len(text)
  /\ \A j \in 1..Len(sub) : Lower(text[i + j - 1]) = Lower(sub[j])

Holds(text, sub) == \E i \in 1..Len(text) : HoldsAt(text, sub, i)

\* the text holds #T at some position with no word character or hyphen
\* directly behind it
HoldsHashForm(text, tag) ==
  \E i \in 1..Len(text) :
    /\ HoldsAt(text, <<"#">> \o tag, i)
    /\ LET behind == i + Len(tag) + 1
       IN behind > Len(text) \/ Lower(text[behind]) \notin WordChars \cup {"-"}

\* C22: the matcher of a category T accepts a text iff the text holds #T not
\* directly followed by a word character or a hyphen, or #[[T]], or [[T]],
\* in any case of the letters.
C22_MatcherAcceptsTheThreeForms ==
  matchPc = "tested" =>
    (matched <=>
       \/ HoldsHashForm(matchText, matchConfig.tag)
       \/ Holds(matchText, <<"#", "[", "[">> \o matchConfig.tag \o <<"]", "]">>)
       \/ Holds(matchText, <<"[", "[">> \o matchConfig.tag \o <<"]", "]">>))

\* C22 witness: a text whose only tag is #MAP2 was tested against the
\* category map and not accepted.
C22_Witness ==
  /\ matchPc = "tested"
  /\ matchConfig = TagMap
  /\ matchText = <<"#", "M", "A", "P", "2">>
  /\ ~matched

\* a text with #map-x and a page reference [[Map]] accepted in another case
C22_WitnessPageReference ==
  /\ matchPc = "tested"
  /\ matchConfig = TagMap
  /\ matchText = <<"x", " ", "[", "[", "M", "a", "p", "]", "]", "-", "x">>
  /\ matched

(***************************************************************************)
(* Claims about the scanner.                                               *)
(***************************************************************************)
Scopes == {"target", "nextDay"}
ScopePage(scope) == IF scope = "target" THEN targetPage ELSE nextDayPage
ScopeOutput(scope) == IF scope = "target" THEN targetBlocks ELSE nextDayBlocks
ScopeBlocks(scope) == Range(ScopePage(scope))

\* the records with a valid interval, and the resolved category of a record
ValidBlocks(scope) == {b \in ScopeBlocks(scope) : ParseBlock(b) # Null}
CategoryOf(scope, b) ==
  LET data == getBlockHierarchyData(ScopePage(scope))
  IN ResolveTag(b.uid, scanTags, data.contentMap, data.parentMap)
IsOutput(scope, b) == \E e \in Range(ScopeOutput(scope)) : e.uid = b.uid
OutputOf(scope, b) == CHOOSE e \in Range(ScopeOutput(scope)) : e.uid = b.uid

\* the record lies before the day boundary, where its scope has one
BeforeBoundary(scope, b) ==
  \/ scope = "target"
  \/ ParseBlock(b).startHour < getDayBoundaryHour(dayEndHour)

\* with categories configured every output carries one; with none configured
\* every valid record (before the boundary, if bounded) is output with
\* category null
CategoryRule(bounded) ==
  \A scope \in Scopes :
    /\ Len(scanTags) > 0 => \A e \in Range(ScopeOutput(scope)) : e.tag # Null
    /\ Len(scanTags) = 0 =>
         \A b \in ValidBlocks(scope) :
           (bounded => BeforeBoundary(scope, b)) =>
             IsOutput(scope, b) /\ OutputOf(scope, b).tag = Null

\* C8 as stated: a record with a valid interval is output iff its resolved
\* category is non-null or no category is configured; with categories
\* configured every output carries one, with none every valid record is
\* output with category null.
C8_OutputIffCategoryOrNoneConfigured ==
  scanPc = "scanned" =>
    /\ \A scope \in Scopes : \A b \in ValidBlocks(scope) :
         IsOutput(scope, b) <=> (CategoryOf(scope, b) # Null \/ Len(scanTags) = 0)
    /\ CategoryRule(FALSE)

\* C8 amended: a record with a valid interval is output iff its resolved
\* category is non-null or no category is configured, and, in the next-day
\* scope, its start hour is before the boundary hour; with categories
\* configured every output carries one, with none every such record is
\* output with category null.
C8_OutputIffCategoryAndBeforeBoundary ==
  scanPc = "scanned" =>
    /\ \A scope \in Scopes : \A b \in ValidBlocks(scope) :
         IsOutput(scope, b) <=>
           /\ CategoryOf(scope, b) # Null \/ Len(scanTags) = 0
           /\ BeforeBoundary(scope, b)
    /\ CategoryRule(TRUE)

\* categories are configured; a valid record is output with the category of
\* its parent, and a valid record of the next day is dropped by the boundary
\* although it has a category
C8_Witness ==
  /\ scanPc = "scanned"
  /\ Len(scanTags) > 0
  /\ \E b \in ValidBlocks("target") :
       /\ IsOutput("target", b)
       /\ findTagInTextWithMatchers(b.string, buildTagMatchers(scanTags)) = Null
  /\ \E b \in ValidBlocks("nextDay") :
       /\ CategoryOf("nextDay", b) # Null
       /\ ~BeforeBoundary("nextDay", b)
       /\ ~IsOutput("nextDay", b)

\* no categories are configured and every valid record before the boundary
\* is output with category null
C8_WitnessNoneConfigured ==
  /\ scanPc = "scanned"
  /\ Len(scanTags) = 0
  /\ Len(targetBlocks) > 0
  /\ Len(nextDayBlocks) > 0
  /\ \E b \in ValidBlocks("nextDay") : ~IsOutput("nextDay", b)

\* C9: every interval emitted for the next day has start and end 1440
\* minutes after the written ones and its written start hour is before the
\* boundary hour; the intervals of the target day are the written ones, and
\* none is dropped for the boundary.
C9_NextDayShiftedAndBounded ==
  scanPc = "scanned" =>
    /\ \A b \in ValidBlocks("nextDay") :
         IsOutput("nextDay", b) =>
           LET written == ParseBlock(b)
               emitted == OutputOf("nextDay", b).timeRange
           IN /\ StartTotal(emitted) = StartTotal(written) + 1440
              /\ EndTotal(emitted) = EndTotal(written) + 1440
              /\ written.startHour < getDayBoundaryHour(dayEndHour)
    /\ \A e \in Range(nextDayBlocks) : \E b \in ValidBlocks("nextDay") : b.uid = e.uid
    /\ \A b \in ValidBlocks("target") :
         /\ IsOutput("target", b) =>
              OutputOf("target", b).timeRange = ParseBlock(b)
         /\ (CategoryOf("target", b) # Null \/ Len(scanTags) = 0) => IsOutput("target", b)
    /\ \A e \in Range(targetBlocks) : \E b \in ValidBlocks("target") : b.uid = e.uid

\* a next-day interval is emitted, another is dropped at the boundary hour,
\* and the target day keeps an interval that starts at the boundary hour
C9_Witness ==
  /\ scanPc = "scanned"
  /\ getDayBoundaryHour(dayEndHour) > 0
  /\ Len(nextDayBlocks) > 0
  /\ \E b \in ValidBlocks("nextDay") :
       /\ ParseBlock(b).startHour = getDayBoundaryHour(dayEndHour)
       /\ ~IsOutput("nextDay", b)
  /\ \E b \in ValidBlocks("target") :
       /\ ParseBlock(b).startHour = getDayBoundaryHour(dayEndHour)
       /\ IsOutput("target", b)

\* C10: the list scanDateForTimeBlocks returns is in ascending order of start
\* minute, whatever the order of the records on the pages, and every element
\* ends at or after its start.
C10_DateBlocksSorted ==
  scanPc = "scanned" =>
    /\ \A i, j \in 1..Len(dateBlocks) :
         i < j => StartOf(dateBlocks[i]) <= StartOf(dateBlocks[j])
    /\ \A i \in 1..Len(dateBlocks) : EndOf(dateBlocks[i]) >= StartOf(dateBlocks[i])
    /\ Len(dateBlocks) = Len(targetBlocks) + Len(nextDayBlocks)
    /\ Range(dateBlocks) = Range(targetBlocks) \cup Range(nextDayBlocks)

\* the target page holds a later interval before an earlier one, both are
\* returned, and a shifted interval of the next day follows them
C10_Witness ==
  /\ scanPc = "scanned"
  /\ Len(targetBlocks) >= 2
  /\ StartOf(targetBlocks[1]) > StartOf(targetBlocks[2])
  /\ Len(nextDayBlocks) >= 1
  /\ Len(dateBlocks) = 3

\* a range that breaks a bound: an hour above 23, a minute above 59 or an end
\* before the start
BreaksBounds(range) ==
  \/ range.startHour > 23 \/ range.endHour > 23
  \/ range.startMinute > 59 \/ range.endMinute > 59
  \/ EndTotal(range) < StartTotal(range)

IsShortText(p) == p.m1 = <<>> /\ p.m2 = <<>> /\ p.p1 # <<>> /\ p.p2 # <<>>

\* what the pieces of a 12-hour text say, with or without minutes
WrittenMinute(m) == IF m = <<>> THEN 0 ELSE ParseInt(Tail(m))
ConvertedRange(p) ==
  [startHour |-> convert12to24(ParseInt(p.h1), p.p1), startMinute |-> WrittenMinute(p.m1),
   endHour |-> convert12to24(ParseInt(p.h2), p.p2), endMinute |-> WrittenMinute(p.m2)]

\* the text holds one interval, written in one of the three forms, and the
\* interval breaks a bound
InvalidInterval(p) ==
  /\ p.tail # SecondRange
  /\ \/ Is24HourText(p) /\ BreaksBounds(WrittenRange(p))
     \/ (Is12HourText(p) \/ IsShortText(p)) /\ BreaksBounds(ConvertedRange(p))

\* the text holds no interval expression: an am/pm marker is missing on one
\* side and it is not a 24-hour text either
NoExpression(p) ==
  /\ p.tail # SecondRange
  /\ p.p1 = <<>> \/ p.p2 = <<>>
  /\ ~Is24HourText(p)

\* the texts of a page without a valid interval: end before start, no
\* interval expression
InvalidPageTexts == {BackwardText, WorkText}

\* the record is one the loop keeps once it has a valid interval
Kept(scope, b) ==
  /\ b.string \notin InvalidPageTexts
  /\ CategoryOf(scope, b) # Null \/ Len(scanTags) = 0
  /\ BeforeBoundary(scope, b)

C26_FlagFollowsMountedRoot ==
  extensionPc # "off" =>
    /\ sidebarOpen <=> root
    /\ firstClick # "closed"

\* what the claim says loadSettings makes of a stored value with bounds
\* 0..top and the given default
ClaimedHour(stored, top, default) ==
  IF stored.kind # "number" THEN default
  ELSE IF stored.value < 0 THEN 0
  ELSE IF stored.value > top THEN top
  ELSE stored.value

\* C28: loadSettings returns a stored dayStartHour in 0..23 and a stored
\* dayEndHour in 0..30 unchanged, clamps a stored number outside the range
\* to the nearest bound, and returns the default only when no number is
\* stored.
C28_StoredHoursKeptOrClamped ==
  settingsPc = "loaded" =>
    /\ loadedStart = ClaimedHour(storedStart, 23, DEFAULT_SETTINGS.dayStartHour)
    /\ loadedEnd = ClaimedHour(storedEnd, 30, DEFAULT_SETTINGS.dayEndHour)

\* the claim with the stored number 0 set aside
C28_NonZeroHoursKeptOrClamped ==
  settingsPc = "loaded" =>
    /\ storedStart # Stored(0)
         => loadedStart = ClaimedHour(storedStart, 23, DEFAULT_SETTINGS.dayStartHour)
    /\ storedEnd # Stored(0)
         => loadedEnd = ClaimedHour(storedEnd, 30, DEFAULT_SETTINGS.dayEndHour)

\* C29: an interval returned through the 12-hour form without minutes has
\* the hours of an H{am|pm}-H{am|pm} expression of the text: the text is
\* written in that form and the hours are its hour fields, or the expression
\* is the second range behind the text; the two digits behind a colon are
\* never read as an hour.
C29_ShortFormReadsHourFields ==
  (parsePc = "parsed" /\ parsedBy = 3) =>
    IF textParts.tail = SecondRange
    THEN parsed.originalText = Tail(SecondRange)
    ELSE /\ textParts.m1 = <<>> /\ textParts.m2 = <<>>
         /\ SameTimes(parsed, ConvertedRange(textParts))

(***************************************************************************)
(* The pipeline run more than once on the same inputs: the sidebar's        *)
(* refreshTimeBlocks scans the two pages (parse and resolve for every       *)
(* block, then sort) and the grid lays the scanned list out.  The pages,    *)
(* the tags and the list handed to the layout are objects the code could    *)
(* write to; they are kept as they stand after every run.                   *)
(***************************************************************************)
MaxRuns == 2            \* the runs of the pipeline on one store
MaxPipelineBlocks == 2  \* most blocks on the two pages of the pipeline together

\* the pages of n blocks with the uids first + 1 .. first + n, written with
\* the texts of the pipeline
PipelinePages(first, n) ==
  {[i \in 1..n |-> [uid |-> first + i,
                    string |-> texts[i],
                    order |-> i - 1,
                    parentUid |-> IF up[i] = 0 THEN NoUid ELSE first + up[i]]] :
     texts \in [1..n -> PipelineTexts],
     up \in {f \in [1..n -> 0..n] : \A i \in 1..n : f[i] < i}}

PipelineInputs ==
  UNION {[targetPage : PipelinePages(0, n),
          nextDayPage : PipelinePages(MaxPipelineBlocks, m),
          configuredTags : TagLists,
          dayEndHour : DayEndHours] :
           n \in 0..MaxPipelineBlocks, m \in 0..MaxPipelineBlocks}

InitPipeline ==
  /\ LayoutIdle
  /\ ParseIdle
  /\ ResolveIdle
  /\ ScanIdle
  /\ FormatIdle
  /\ ConvertIdle
  /\ ModeIdle
  /\ MatchIdle
  /\ SidebarIdle
  /\ SettingsIdle
  /\ GridIdle
  /\ givenInputs \in PipelineInputs
  /\ Len(givenInputs.targetPage) + Len(givenInputs.nextDayPage) <= MaxPipelineBlocks
  /\ pipelineInputs = givenInputs
  /\ layoutArgument = <<>>
  /\ pipelineRuns = <<>>

PipelineOthers ==
  <<layoutVars, parseVars, resolveVars, scanVars, formatVars, convertVars, modeVars,
    matchVars, sidebarVars, settingsVars, gridVars>>

\* mutant: the layout sorts the array it is handed
ArgumentSortedInPlace(blocks) ==
  StableSort(blocks, [i \in 1..Len(blocks), j \in 1..Len(blocks) |->
                       LayoutCompare(blocks[i], blocks[j])])

\* calculateBlockLayouts sorts [...blocks], a copy: the array it is handed
\* stands as it was
ArgumentAfterLayout(blocks) == blocks

\* scanDateForTimeBlocks(date, configuredTags, dayBoundaryHour)
scanDateForTimeBlocks(inputs) ==
  LET dayBoundaryHour == getDayBoundaryHour(inputs.dayEndHour)
  IN SortByStart(
       scanPageForTimeBlocks(inputs.targetPage, inputs.configuredTags, FALSE, dayBoundaryHour)
         \o scanPageForTimeBlocks(inputs.nextDayPage, inputs.configuredTags, TRUE,
                                  dayBoundaryHour))

\* one refresh of the sidebar and the render that follows it: the scan reads
\* the pages and the tags and assigns to none of them
RunPipeline ==
  /\ Len(pipelineRuns) < MaxRuns
  /\ LET scannedBlocks == scanDateForTimeBlocks(pipelineInputs)
     IN /\ pipelineRuns' = Append(pipelineRuns,
                                  [dateBlocks |-> scannedBlocks,
                                   blockLayouts |-> calculateBlockLayouts(scannedBlocks)])
        /\ layoutArgument' = ArgumentAfterLayout(scannedBlocks)
  /\ UNCHANGED <<givenInputs, pipelineInputs, PipelineOthers>>

NextPipeline == RunPipeline

SpecPipeline == InitPipeline /\ [][NextPipeline]_vars

DEFAULT_PIXELS_PER_HOUR == 48
MIN_DRAG_DISTANCE == 8

\* the remainder operator % of the program: the sign of the dividend
JsRemainder(a, b) == IF a >= 0 THEN a % b ELSE 0 - ((0 - a) % b)

\* Math.round(a / b) for b > 0: halves go up
RoundDiv(a, b) == (2 * a + b) \div (2 * b)

effectiveEndHour(props) ==
  IF props.endHour <= props.startHour THEN props.endHour + 24 ELSE props.endHour

\* the four arguments of onBlockDrag and onCreateBlock for a range in minutes
HoursAndMinutes(startMinutes, endMinutes) ==
  [startHour |-> startMinutes \div 60,
   startMinute |-> JsRemainder(startMinutes, 60),
   endHour |-> endMinutes \div 60,
   endMinute |-> JsRemainder(endMinutes, 60)]

\* calculateNewTime(block, deltaY): deltaMinutes is deltaY * 60 / 48, a
\* number of quarter minutes
calculateNewTime(range, deltaY, granularity) ==
  LET startMinutes == range.startHour * 60 + range.startMinute
      endMinutes == range.endHour * 60 + range.endMinute
      duration == endMinutes - startMinutes
      newStartMinutes ==
        RoundDiv(DEFAULT_PIXELS_PER_HOUR * startMinutes + 60 * deltaY,
                 DEFAULT_PIXELS_PER_HOUR * granularity) * granularity
  IN HoursAndMinutes(newStartMinutes, newStartMinutes + duration)

\* getMinutesFromY(clientY): clamped to the grid, then snapToGrid
getMinutesFromY(props, clientY) ==
  LET scaled == 60 * clientY + DEFAULT_PIXELS_PER_HOUR * props.startHour * 60
      low == DEFAULT_PIXELS_PER_HOUR * props.startHour * 60
      high == DEFAULT_PIXELS_PER_HOUR * effectiveEndHour(props) * 60
  IN RoundDiv(Max(low, Min(high, scaled)),
              DEFAULT_PIXELS_PER_HOUR * props.timeGranularity) * props.timeGranularity

\* handleResizeMove: the new resizeCurrentMinutes
ResizedMinutes(props, range, edge, deltaY) ==
  LET resizeOriginalStart == range.startHour * 60 + range.startMinute
      resizeOriginalEnd == range.endHour * 60 + range.endMinute
      snapped(minutes) ==
        RoundDiv(DEFAULT_PIXELS_PER_HOUR * minutes + 60 * deltaY,
                 DEFAULT_PIXELS_PER_HOUR * props.timeGranularity) * props.timeGranularity
  IN IF edge = "top"
     THEN [start |-> Max(Min(snapped(resizeOriginalStart),
                             resizeOriginalEnd - props.timeGranularity),
                         props.startHour * 60),
           end |-> resizeOriginalEnd]
     ELSE [start |-> resizeOriginalStart,
           end |-> Min(Max(snapped(resizeOriginalEnd),
                           resizeOriginalStart + props.timeGranularity),
                       effectiveEndHour(props) * 60)]

\* the grids, the blocks and the pointer positions of the model
GridHours == {<<6, 22>>, <<8, 26>>, <<0, 30>>}
Granularities == {DEFAULT_GRANULARITY, 30}

GridProps ==
  {[startHour |-> hours[1], endHour |-> hours[2], timeGranularity |-> granularity] :
     hours \in GridHours, granularity \in Granularities}

GridBlockMinutes == {360, 480, 1260, 1320, 1380, 1410, 1440, 1530}

GridBlocks ==
  {MinuteRange(pair[1], pair[2]) :
     pair \in {q \in GridBlockMinutes \X GridBlockMinutes : q[1] < q[2]}}

DragPixels == {0 - 48, 0 - 36, 0 - 12, 0, 5, 12, 36, 48}

GridHeight(props) == (effectiveEndHour(props) - props.startHour) * DEFAULT_PIXELS_PER_HOUR

ClickPixels(props) ==
  {0, 5, 12, GridHeight(props) - 144, GridHeight(props) - 96, GridHeight(props) - 48,
   GridHeight(props) - 5, GridHeight(props)}

InitGrid ==
  /\ LayoutIdle
  /\ ParseIdle
  /\ ResolveIdle
  /\ ScanIdle
  /\ FormatIdle
  /\ ConvertIdle
  /\ ModeIdle
  /\ MatchIdle
  /\ SidebarIdle
  /\ SettingsIdle
  /\ PipelineIdle
  /\ gridProps \in GridProps
  /\ gridBlock \in GridBlocks
  /\ resizeEdge = "null"
  /\ resizeCurrentMinutes = Null
  /\ createStartY = NoMinutes
  /\ createCurrentY = NoMinutes
  /\ createStartClientY = NoMinutes
  /\ committed = Null
  /\ writtenText = <<>>
  /\ rescanned = Null
  /\ gridPc = "shown"

GridOthers ==
  <<layoutVars, parseVars, resolveVars, scanVars, formatVars, convertVars, modeVars,
    matchVars, sidebarVars, settingsVars, pipelineVars>>

gridState == <<resizeEdge, resizeCurrentMinutes, createStartY, createCurrentY,
               createStartClientY>>

\* the handler calls onBlockDrag or onCreateBlock with the range, and the
\* callback writes formatTimeRange of it into the block
Commit(via, range) ==
  /\ committed' = [via |-> via, range |-> range]
  /\ writtenText' = formatTimeRange(range.startHour, range.startMinute,
                                    range.endHour, range.endMinute)
  /\ gridPc' = "handled"

\* the handler returns without a call of the callback
NoCommit ==
  /\ committed' = Null
  /\ writtenText' = <<>>
  /\ gridPc' = "handled"

NoGesture == gridPc = "shown" /\ resizeEdge = "null" /\ createStartY = NoMinutes

\* handleDragEnd(event) with event.delta.y = deltaY
HandleDragEnd(deltaY) ==
  /\ NoGesture
  /\ LET newTime == calculateNewTime(gridBlock, deltaY, gridProps.timeGranularity)
     IN IF /\ deltaY # 0
           /\ newTime.startHour >= gridProps.startHour
           /\ newTime.endHour <= effectiveEndHour(gridProps)
        THEN Commit("drag", newTime)
        ELSE NoCommit
  /\ UNCHANGED <<gridProps, gridBlock, gridState, rescanned, GridOthers>>

\* handleKeyDown(e) with the block selected; direction is -1 for ArrowUp and
\* 1 for ArrowDown
HandleKeyDown(direction) ==
  /\ NoGesture
  /\ LET deltaMinutes == direction * gridProps.timeGranularity
         newStartMinutes == gridBlock.startHour * 60 + gridBlock.startMinute + deltaMinutes
         newEndMinutes == gridBlock.endHour * 60 + gridBlock.endMinute + deltaMinutes
     IN IF \/ newStartMinutes < gridProps.startHour * 60
           \/ newEndMinutes > effectiveEndHour(gridProps) * 60
        THEN NoCommit
        ELSE Commit("key", HoursAndMinutes(newStartMinutes, newEndMinutes))
  /\ UNCHANGED <<gridProps, gridBlock, gridState, rescanned, GridOthers>>

\* handleResizeStart(uid, edge, e)
HandleResizeStart(edge) ==
  /\ NoGesture
  /\ resizeEdge' = edge
  /\ resizeCurrentMinutes' = [start |-> gridBlock.startHour * 60 + gridBlock.startMinute,
                              end |-> gridBlock.endHour * 60 + gridBlock.endMinute]
  /\ UNCHANGED <<gridProps, gridBlock, createStartY, createCurrentY, createStartClientY,
                 committed, writtenText, rescanned, gridPc, GridOthers>>

\* handleGridMouseDown(e) on the empty grid
HandleGridMouseDown(clientY) ==
  /\ NoGesture
  /\ createStartY' = getMinutesFromY(gridProps, clientY)
  /\ createCurrentY' = getMinutesFromY(gridProps, clientY)
  /\ createStartClientY' = clientY
  /\ UNCHANGED <<gridProps, gridBlock, resizeEdge, resizeCurrentMinutes, committed,
                 writtenText, rescanned, gridPc, GridOthers>>

\* handleGridMouseMove(e): handleResizeMove when a block is resized, clientY
\* being deltaY away from where the resize started, else the current end of
\* the selection
HandleGridMouseMove(clientY, deltaY) ==
  /\ gridPc = "shown"
  /\ IF resizeEdge # "null"
     THEN /\ resizeCurrentMinutes' = ResizedMinutes(gridProps, gridBlock, resizeEdge, deltaY)
          /\ UNCHANGED createCurrentY
     ELSE /\ createStartY # NoMinutes
          /\ createCurrentY' = getMinutesFromY(gridProps, clientY)
          /\ UNCHANGED resizeCurrentMinutes
  /\ UNCHANGED <<gridProps, gridBlock, resizeEdge, createStartY, createStartClientY,
                 committed, writtenText, rescanned, gridPc, GridOthers>>

\* handleGridMouseUp(e): handleResizeEnd when a block is resized, else the
\* end of a drag-to-create
HandleGridMouseUp(clientY) ==
  /\ gridPc = "shown"
  /\ resizeEdge # "null" \/ createStartY # NoMinutes
  /\ IF resizeEdge # "null"
     THEN IF \/ resizeCurrentMinutes.start # gridBlock.startHour * 60 + gridBlock.startMinute
             \/ resizeCurrentMinutes.end # gridBlock.endHour * 60 + gridBlock.endMinute
          THEN Commit("resize",
                      HoursAndMinutes(resizeCurrentMinutes.start, resizeCurrentMinutes.end))
          ELSE NoCommit
     ELSE LET dragDistance == IF clientY >= createStartClientY
                              THEN clientY - createStartClientY
                              ELSE createStartClientY - clientY
              startMinutes == Min(createStartY, createCurrentY)
              endMinutes == Max(createStartY, createCurrentY)
              adjustedEnd == Max(endMinutes, startMinutes + gridProps.timeGranularity)
          IN IF dragDistance < MIN_DRAG_DISTANCE THEN NoCommit
             ELSE IF adjustedEnd > startMinutes
                  THEN Commit("create", HoursAndMinutes(startMinutes, adjustedEnd))
                  ELSE NoCommit
  /\ resizeEdge' = "null"
  /\ resizeCurrentMinutes' = Null
  /\ createStartY' = NoMinutes
  /\ createCurrentY' = NoMinutes
  /\ createStartClientY' = NoMinutes
  /\ UNCHANGED <<gridProps, gridBlock, rescanned, GridOthers>>

\* handleGridMouseLeave(): the resize or the selection is given up
HandleGridMouseLeave ==
  /\ gridPc = "shown"
  /\ resizeEdge # "null" \/ createStartY # NoMinutes
  /\ resizeEdge' = "null"
  /\ resizeCurrentMinutes' = Null
  /\ createStartY' = NoMinutes
  /\ createCurrentY' = NoMinutes
  /\ createStartClientY' = NoMinutes
  /\ UNCHANGED <<gridProps, gridBlock, committed, writtenText, rescanned, gridPc,
                 GridOthers>>

\* the refresh after the write: the scan parses the text of the block
RefreshAfterCommit ==
  /\ gridPc = "handled"
  /\ committed # Null
  /\ rescanned' = parseTimeRange(writtenText)
  /\ gridPc' = "rescanned"
  /\ UNCHANGED <<gridProps, gridBlock, gridState, committed, writtenText, GridOthers>>

NextGrid ==
  \/ \E deltaY \in DragPixels : HandleDragEnd(deltaY)
  \/ \E direction \in {0 - 1, 1} : HandleKeyDown(direction)
  \/ \E edge \in {"top", "bottom"} : HandleResizeStart(edge)
  \/ \E clientY \in ClickPixels(gridProps) : HandleGridMouseDown(clientY)
  \/ \E clientY \in ClickPixels(gridProps), deltaY \in DragPixels :
       HandleGridMouseMove(clientY, deltaY)
  \/ \E clientY \in ClickPixels(gridProps) : HandleGridMouseUp(clientY)
  \/ HandleGridMouseLeave
  \/ RefreshAfterCommit

SpecGrid == InitGrid /\ [][NextGrid]_vars

\* C25: the text written for a range the grid committed is parsed back to
\* the committed start and end hour and minute
C25_CommittedRangeParsesBack ==
  gridPc = "rescanned" =>
    /\ rescanned # Null
    /\ SameTimes(rescanned, committed.range)

\* the same for the ranges of a drag-to-create alone
C25_CreatedRangeParsesBack ==
  (gridPc = "rescanned" /\ committed.via = "create") =>
    /\ rescanned # Null
    /\ SameTimes(rescanned, committed.range)

\* the block acted on lies inside the displayed grid
BlockInsideGrid ==
  /\ gridProps.startHour * 60 <= gridBlock.startHour * 60 + gridBlock.startMinute
  /\ gridBlock.endHour * 60 + gridBlock.endMinute <= effectiveEndHour(gridProps) * 60

\* the same for the ranges that end before midnight, committed for a block
\* inside the grid
C25_RangeOfTheSameDayParsesBack ==
  (gridPc = "rescanned" /\ committed.range.endHour <= 23 /\ BlockInsideGrid) =>
    /\ rescanned # Null
    /\ SameTimes(rescanned, committed.range)

CommittedStart == committed.range.startHour * 60 + committed.range.startMinute
CommittedEnd == committed.range.endHour * 60 + committed.range.endMinute

InsideGrid ==
  /\ gridProps.startHour * 60 <= CommittedStart
  /\ CommittedEnd <= effectiveEndHour(gridProps) * 60

\* C27: a range committed by a drag-move lies inside the displayed grid,
\* startHour * 60 <= newStart and newEnd <= effectiveEndHour * 60
C27_DragCommitsInsideGrid ==
  (committed # Null /\ committed.via = "drag") => InsideGrid

\* the bound the arrow-key move keeps
C27_KeyCommitsInsideGrid ==
  (committed # Null /\ committed.via = "key") => InsideGrid

\* a drag-to-create from 23:00 to 24:00 in a grid from 8 to 26 was written
\* and the refresh found no range in the text
C25_CreatedPastMidnightNotFound ==
  /\ gridPc = "rescanned"
  /\ gridProps.startHour = 8 /\ gridProps.endHour = 26
  /\ committed.via = "create"
  /\ committed.range = [startHour |-> 23, startMinute |-> 0, endHour |-> 24, endMinute |-> 0]
  /\ rescanned = Null

\* a block from 06:00 to 22:00 in a grid from 6 to 22 was dragged to
\* 06:15-22:15
C27_DraggedPastTheEnd ==
  /\ gridProps.startHour = 6 /\ gridProps.endHour = 22
  /\ committed # Null
  /\ committed.via = "drag"
  /\ committed.range = [startHour |-> 6, startMinute |-> 15, endHour |-> 22, endMinute |-> 15]

=============================================================================
